---- MODULE Spec2Model ----
(***************************************************************************)
(* Model of the fat-controller orchestrator (src/orchestrator.py): the     *)
(* graph engine, the checkpoint manager and the PM/PL cycle driver.         *)
(*                                                                         *)
(* Two specifications share the variables:                                  *)
(*   Spec     the driver process (run_orchestration) with interrupts,       *)
(*            process death and restart;                                    *)
(*   SpecMgr  a CheckpointManager used through its public operations, in    *)
(*            any order, with process death and re-opening.                  *)
(*                                                                         *)
(* Text values are sequences of characters, so that str.strip() and the     *)
(* empty string are computed and not assumed.  The program never compares  *)
(* or computes with the time it reads, so every timestamp is the one text   *)
(* Now; the name of a new run directory, which is a timestamp too, is a     *)
(* number above those of the run directories that exist.                    *)
(***************************************************************************)
EXTENDS Integers, Sequences, FiniteSets, TLC

VARIABLES
    files,            \* run directory -> content of checkpoint.json
    tmps,             \* run directory -> content of checkpoint.json.tmp
    dirs,             \* the run directories that exist under tasks/
    plan,             \* the graph the planner is working on (environment)
    pc,               \* position of the process
    ret,              \* position to continue at after the rename of a write
    exit_code,        \* exit code of the process once it has ended
    shutting_down,    \* _shutting_down
    cycle_count,      \* state.cycle_count
    pm_error_retries, \* pm_error_retries of run_orchestration
    sprint_history,   \* sprint_history of run_orchestration
    pl_results,       \* pl_results of run_orchestration
    node_results,     \* node_results of the traversal in progress
    graph,            \* state.current_graph / CheckpointManager.graph
    run,              \* run directory of the open CheckpointManager
    state,            \* CheckpointManager.state
    ready_nodes,      \* ready_nodes of the traversal loop
    idx,              \* position of the for loop in ready_nodes
    op,               \* the operation the process performed last
    dispatched,       \* log: the nodes this process handed to record_node_start
    restarts,         \* number of process starts after the first
    ops,              \* number of manager operations called (SpecMgr)
    max_cycles,       \* state.max_cycles, given on the command line
    pm_failures,      \* log: the planner failures since the last accepted graph
    out,              \* result of the function applied (SpecVal)
    worktrees,        \* node ids with a directory under .worktrees/
    repo,             \* the git repository of the project
    locals            \* local variables of the handler that executes

vars == <<files, tmps, dirs, plan, pc, ret, exit_code, shutting_down,
          cycle_count, pm_error_retries, sprint_history, pl_results,
          node_results, graph, run, state, ready_nodes, idx, op, dispatched,
          restarts, ops, max_cycles, pm_failures, out,
          worktrees, repo, locals>>

-----------------------------------------------------------------------------
(* Bounds of the model *)

MaxEdges == 2        \* edges of a planned graph
MaxRestarts == 1     \* process restarts
MaxCycles == 2       \* state.max_cycles given on the command line
MaxOps == 3          \* manager operations in SpecMgr
MaxValEdges == 3     \* edges of a graph given to validate in SpecVal
MaxHashEdges == 2    \* edges of a graph given to the hash in SpecHash
MaxSprints == 3      \* entries of the sprint list of a next_task signal
MaxOutput == 5       \* pieces of an agent output given to parse_signal

(* Program constants *)

PM_ERROR_MAX_RETRIES == 1
STUCK_THRESHOLD == 3
SUMMARY_LIMIT == 2000
RAW_LIMIT == 500     \* characters of raw_tail and of raw_signal

-----------------------------------------------------------------------------
(* Values *)

None == <<"None">>                  \* Python None in a text position
Now == <<"t">>                      \* _utc_timestamp()
NoFile == [kind |-> "absent"]       \* the file does not exist
Partial == [kind |-> "partial"]     \* a file holding a prefix of a payload
NoState == [kind |-> "none"]        \* no CheckpointManager is open
NoLocals == [kind |-> "none"]      \* no handler executes
NoGraph == [nodes |-> <<>>, edges |-> <<>>]

(* The repository: the node branches whose merge commit is on mainline,
   the node branches that exist, those with commits that mainline lacks,
   and the branch of a merge in progress (MERGE_HEAD). *)
CleanRepo == [main |-> {}, branches |-> {}, ahead |-> {}, merging |-> {}]

T(s) == <<s>>
Empty == <<>>
Blank == " "

PENDING == "pending"
IN_PROGRESS == "in_progress"
COMPLETED == "completed"
FAILED == "failed"
SKIPPED == "skipped"

ALWAYS == "always"
PASS == "status == \"pass\""
FAIL == "status == \"fail\""
NOERR == "output.error_details == null"

Range(s) == {s[i] : i \in 1..Len(s)}

Edge(s, t, c) == [source |-> s, target |-> t, condition |-> c]

NodeSet(g) == Range(g.nodes)

-----------------------------------------------------------------------------
(* Graph engine *)

forward_edges(g, v) == SelectSeq(g.edges, LAMBDA e : e.source = v)

reverse_edges(g, v) == SelectSeq(g.edges, LAMBDA e : e.target = v)

get_downstream_nodes(g, v) ==
    [i \in 1..Len(forward_edges(g, v)) |-> forward_edges(g, v)[i].target]

(* An Optional[bool] is the set of its values: {} is Python None. *)
NodeOutcome(status, summary, artifacts, model, error) ==
    [status |-> status, output_summary |-> summary, artifacts |-> artifacts,
     model_used |-> model, error_details |-> error,
     merge_success |-> {}, merge_details |-> None]

evaluate_edge_condition(e, outcome) ==
    CASE e.condition = ALWAYS -> TRUE
      [] e.condition = PASS -> outcome.status = COMPLETED
      [] e.condition = FAIL -> outcome.status = FAILED
      [] e.condition = NOERR -> outcome.error_details = None
      [] OTHER -> FALSE

StatusOf(status_map, n, default) ==
    IF n \in DOMAIN status_map THEN status_map[n] ELSE default

(* A readiness test that does not look at the status of the node itself. *)
IsReady_AnyStatus(g, status_map, n) ==
    \A i \in 1..Len(reverse_edges(g, n)) :
        LET e == reverse_edges(g, n)[i]
            source_status == StatusOf(status_map, e.source, "")
        IN  /\ source_status = COMPLETED
            /\ evaluate_edge_condition(
                   e, NodeOutcome(source_status, Empty, <<>>, Empty, None))

(* A readiness test that does not wait for the sources of the incoming
   edges. *)
IsReady_NoWait(g, status_map, n) ==
    /\ ~(n \in DOMAIN status_map /\ StatusOf(status_map, n, PENDING) # PENDING)
    /\ \A i \in 1..Len(reverse_edges(g, n)) :
          evaluate_edge_condition(
              reverse_edges(g, n)[i],
              NodeOutcome(COMPLETED, Empty, <<>>, Empty, None))

IsReady(g, status_map, n) ==
    /\ ~(n \in DOMAIN status_map /\ StatusOf(status_map, n, PENDING) # PENDING)
    /\ \A i \in 1..Len(reverse_edges(g, n)) :
          LET e == reverse_edges(g, n)[i]
              source_status == StatusOf(status_map, e.source, "")
          IN  /\ source_status = COMPLETED
              /\ evaluate_edge_condition(
                     e, NodeOutcome(source_status, Empty, <<>>, Empty, None))

get_ready_nodes(g, status_map) ==
    SelectSeq(g.nodes, LAMBDA n : IsReady(g, status_map, n))

RECURSIVE Relax(_, _, _)
Relax(edges, in_degree, queue) ==
    IF edges = <<>> THEN [in_degree |-> in_degree, queue |-> queue]
    ELSE LET t == Head(edges).target
         IN  IF t \notin DOMAIN in_degree
             THEN Relax(Tail(edges), in_degree, queue)
             ELSE LET d == [in_degree EXCEPT ![t] = @ - 1]
                  IN  Relax(Tail(edges), d,
                            IF d[t] = 0 THEN Append(queue, t) ELSE queue)

RECURSIVE Kahn(_, _, _, _)
Kahn(g, queue, in_degree, visited_count) ==
    IF queue = <<>>
    THEN [visited_count |-> visited_count, in_degree |-> in_degree]
    ELSE LET r == Relax(forward_edges(g, Head(queue)), in_degree, Tail(queue))
         IN  Kahn(g, r.queue, r.in_degree, visited_count + 1)

InDegree(g) ==
    [n \in NodeSet(g) |->
        Cardinality({i \in 1..Len(g.edges) :
                        /\ g.edges[i].source \in NodeSet(g)
                        /\ g.edges[i].target = n})]

validate(g) ==
    LET missing == ({g.edges[i].source : i \in 1..Len(g.edges)}
                        \cup {g.edges[i].target : i \in 1..Len(g.edges)})
                       \ NodeSet(g)
        k == Kahn(g, SelectSeq(g.nodes, LAMBDA n : InDegree(g)[n] = 0),
                  InDegree(g), 0)
        cyclic == k.visited_count # Len(g.nodes)
    IN  [valid |-> missing = {} /\ ~cyclic,
         missing |-> missing,
         cyclic |-> cyclic,
         cyclic_nodes |-> IF cyclic
                          THEN {n \in NodeSet(g) : k.in_degree[n] > 0}
                          ELSE {}]

(* One error record per message that validate appends to errors. *)
UnknownNodeError(n) == [kind |-> "unknown", node |-> n, path |-> <<>>]

CycleError(path) == [kind |-> "cycle", node |-> "", path |-> path]

(* The first loop of validate without the seen_missing set. *)
RECURSIVE MissingErrors_NoSeen(_, _, _)
MissingErrors_NoSeen(g, edges, seen_missing) ==
    IF edges = <<>> THEN <<>>
    ELSE LET e == Head(edges)
             s == IF e.source \notin NodeSet(g)
                  THEN <<UnknownNodeError(e.source)>> ELSE <<>>
             t == IF e.target \notin NodeSet(g)
                  THEN <<UnknownNodeError(e.target)>> ELSE <<>>
         IN  s \o t \o MissingErrors_NoSeen(g, Tail(edges), seen_missing)

(* The first loop of validate: the unknown endpoints in edge order, the
   source of an edge before its target, each id once. *)
RECURSIVE MissingErrors(_, _, _)
MissingErrors(g, edges, seen_missing) ==
    IF edges = <<>> THEN <<>>
    ELSE LET e == Head(edges)
             s == IF e.source \notin NodeSet(g) /\ e.source \notin seen_missing
                  THEN <<UnknownNodeError(e.source)>> ELSE <<>>
             seen1 == IF s # <<>> THEN seen_missing \cup {e.source}
                      ELSE seen_missing
             t == IF e.target \notin NodeSet(g) /\ e.target \notin seen1
                  THEN <<UnknownNodeError(e.target)>> ELSE <<>>
             seen2 == IF t # <<>> THEN seen1 \cup {e.target} ELSE seen1
         IN  s \o t \o MissingErrors(g, Tail(edges), seen2)

(* dfs of _find_cycle, at the node Last(path) with `edges` of its forward
   edges still to look at.  path is the chain of parent links from the
   root of the search, its range the recursion_stack. *)
(* A search that reports the whole stack when it meets a node of the
   stack again. *)
RECURSIVE dfs_WholeStack(_, _, _, _, _)
dfs_WholeStack(g, candidates, path, edges, visited) ==
    IF edges = <<>> THEN [cycle |-> <<>>, visited |-> visited]
    ELSE LET target_id == Head(edges).target
         IN  IF target_id \notin candidates
             THEN dfs_WholeStack(g, candidates, path, Tail(edges), visited)
             ELSE IF target_id \notin visited
             THEN LET r == dfs_WholeStack(g, candidates,
                                          Append(path, target_id),
                                          forward_edges(g, target_id),
                                          visited \cup {target_id})
                  IN  IF r.cycle # <<>> THEN r
                      ELSE dfs_WholeStack(g, candidates, path, Tail(edges),
                                          r.visited)
             ELSE IF target_id \in Range(path)
             THEN [cycle |-> Append(path, target_id), visited |-> visited]
             ELSE dfs_WholeStack(g, candidates, path, Tail(edges), visited)

RECURSIVE dfs(_, _, _, _, _)
dfs(g, candidates, path, edges, visited) ==
    IF edges = <<>> THEN [cycle |-> <<>>, visited |-> visited]
    ELSE LET target_id == Head(edges).target
         IN  IF target_id \notin candidates
             THEN dfs(g, candidates, path, Tail(edges), visited)
             ELSE IF target_id \notin visited
             THEN LET r == dfs(g, candidates, Append(path, target_id),
                               forward_edges(g, target_id),
                               visited \cup {target_id})
                  IN  IF r.cycle # <<>> THEN r
                      ELSE dfs(g, candidates, path, Tail(edges), r.visited)
             ELSE IF target_id \in Range(path)
             THEN LET first == CHOOSE i \in 1..Len(path) : path[i] = target_id
                  IN  [cycle |-> Append(SubSeq(path, first, Len(path)),
                                        target_id),
                       visited |-> visited]
             ELSE dfs(g, candidates, path, Tail(edges), visited)

(* The loop of _find_cycle over the candidates; order is the order in
   which the set happens to be iterated. *)
RECURSIVE _find_cycle_from(_, _, _, _)
_find_cycle_from(g, candidates, order, visited) ==
    IF order = <<>> THEN <<>>
    ELSE IF Head(order) \in visited
    THEN _find_cycle_from(g, candidates, Tail(order), visited)
    ELSE LET r == dfs(g, candidates, <<Head(order)>>,
                      forward_edges(g, Head(order)),
                      visited \cup {Head(order)})
         IN  IF r.cycle # <<>> THEN r.cycle
             ELSE _find_cycle_from(g, candidates, Tail(order), r.visited)

_find_cycle(g, candidates, order) ==
    _find_cycle_from(g, candidates, order, {})

(* The list of errors validate returns; order is the iteration order of
   the set cyclic_nodes. *)
validate_errors(g, order) ==
    LET v == validate(g)
        cycle == _find_cycle(g, v.cyclic_nodes, order)
        anchor == IF order = <<>> THEN "unknown" ELSE order[1]
    IN  MissingErrors(g, g.edges, {})
        \o (IF ~v.cyclic THEN <<>>
            ELSE IF cycle # <<>> THEN <<CycleError(cycle)>>
            ELSE <<CycleError(<<anchor, anchor>>)>>)

_status_map_for_ready_nodes(status_map) ==
    [n \in DOMAIN status_map |->
        IF status_map[n] \in {FAILED, SKIPPED} THEN COMPLETED
        ELSE status_map[n]]

_is_terminal_node_status(status) == status \in {COMPLETED, FAILED, SKIPPED}

(* A completeness test satisfied by one terminal node. *)
all_nodes_complete_Any(g, status_map) ==
    \E n \in NodeSet(g) :
        _is_terminal_node_status(StatusOf(status_map, n, PENDING))

all_nodes_complete(g, status_map) ==
    \A n \in NodeSet(g) :
        _is_terminal_node_status(StatusOf(status_map, n, PENDING))

-----------------------------------------------------------------------------
(* Text helpers: str.strip(), slicing *)

RECURSIVE lstrip(_)
lstrip(s) ==
    IF s # <<>> /\ Head(s) = Blank THEN lstrip(Tail(s)) ELSE s

RECURSIVE rstrip(_)
rstrip(s) ==
    IF s # <<>> /\ s[Len(s)] = Blank THEN rstrip(SubSeq(s, 1, Len(s) - 1))
    ELSE s

strip(s) == rstrip(lstrip(s))

Truncate(s, n) == IF Len(s) > n THEN SubSeq(s, 1, n) ELSE s

OrEmpty(v) == IF v = None THEN Empty ELSE v

-----------------------------------------------------------------------------
(* Checkpoint manager *)

_compute_graph_hash(g) ==
    [nodes |-> NodeSet(g),
     edges |-> [e \in Range(g.edges) |->
                   Cardinality({i \in 1..Len(g.edges) : g.edges[i] = e})]]

NodeCheckpoint(status) ==
    [status |-> status, started_at |-> None, completed_at |-> None,
     output_summary |-> None, model_used |-> None, artifacts |-> <<>>,
     error_details |-> None]

_reset_node_checkpoint(cp) ==
    [cp EXCEPT !.status = PENDING, !.started_at = None,
               !.completed_at = None, !.output_summary = None,
               !.model_used = None, !.artifacts = <<>>,
               !.error_details = None]

_new_checkpoint_state(run_id, g) ==
    [run_id |-> run_id, graph_hash |-> _compute_graph_hash(g),
     nodes |-> [n \in NodeSet(g) |-> NodeCheckpoint(PENDING)],
     created_at |-> Now, updated_at |-> Now, gate_retries |-> <<>>]

_ensure_node_checkpoint(st, n) ==
    IF n \in DOMAIN st.nodes THEN st
    ELSE [st EXCEPT !.nodes = [m \in DOMAIN st.nodes \cup {n} |->
                                  IF m = n THEN NodeCheckpoint(PENDING)
                                  ELSE st.nodes[m]]]

_optional_text(v) ==
    IF v = None THEN None
    ELSE IF strip(v) = Empty THEN None ELSE strip(v)

(* json.dump of the payload built by _write_checkpoint: every field of the
   state is written as it is, state.updated_at being set first. *)
Payload(st) ==
    [run_id |-> st.run_id, graph_hash |-> st.graph_hash,
     nodes |-> [n \in DOMAIN st.nodes |->
                  [status |-> st.nodes[n].status,
                   started_at |-> st.nodes[n].started_at,
                   completed_at |-> st.nodes[n].completed_at,
                   output_summary |-> st.nodes[n].output_summary,
                   model_used |-> st.nodes[n].model_used,
                   artifacts |-> st.nodes[n].artifacts,
                   error_details |-> st.nodes[n].error_details]],
     created_at |-> st.created_at, updated_at |-> st.updated_at,
     gate_retries |-> st.gate_retries]

Touch(st) == [st EXCEPT !.updated_at = Now]

IsJson(f) == f # NoFile /\ f # Partial

(* _load_checkpoint: a missing file and a file that does not parse give no
   state. *)
_load_checkpoint(f) ==
    IF ~IsJson(f) THEN NoState
    ELSE [run_id |-> f.run_id, graph_hash |-> f.graph_hash,
          nodes |-> [n \in DOMAIN f.nodes |->
                       [status |-> f.nodes[n].status,
                        started_at |-> _optional_text(f.nodes[n].started_at),
                        completed_at |->
                            _optional_text(f.nodes[n].completed_at),
                        output_summary |->
                            _optional_text(f.nodes[n].output_summary),
                        model_used |-> _optional_text(f.nodes[n].model_used),
                        artifacts |-> f.nodes[n].artifacts,
                        error_details |->
                            _optional_text(f.nodes[n].error_details)]],
          created_at |-> IF _optional_text(f.created_at) = None THEN Now
                         ELSE _optional_text(f.created_at),
          updated_at |-> IF _optional_text(f.updated_at) # None
                         THEN _optional_text(f.updated_at)
                         ELSE IF _optional_text(f.created_at) # None
                         THEN _optional_text(f.created_at)
                         ELSE Now,
          gate_retries |-> f.gate_retries]

(* A constructor that never adopts the checkpoint on disk. *)
ManagerInit_Fresh(f, g, run_id) ==
    [state |-> _new_checkpoint_state(run_id, g), changed |-> FALSE]

(* CheckpointManager.__init__: the state after construction and whether the
   constructor writes the checkpoint. *)
ManagerInit(f, g, run_id) ==
    LET existing == _load_checkpoint(f)
        fresh == [state |-> _new_checkpoint_state(run_id, g),
                  changed |-> FALSE]
    IN  IF existing = NoState THEN fresh
        ELSE IF existing.graph_hash # _compute_graph_hash(g) THEN fresh
        ELSE LET ids == DOMAIN existing.nodes \cup NodeSet(g)
                 filled == [n \in ids |->
                              IF n \in DOMAIN existing.nodes
                              THEN existing.nodes[n]
                              ELSE NodeCheckpoint(PENDING)]
                 recovered == [n \in ids |->
                                 IF filled[n].status = IN_PROGRESS
                                 THEN _reset_node_checkpoint(filled[n])
                                 ELSE filled[n]]
             IN  [state |-> [existing EXCEPT !.nodes = recovered],
                  changed |-> \/ ids # DOMAIN existing.nodes
                              \/ \E n \in ids : filled[n].status = IN_PROGRESS]

record_node_start(st, n, model) ==
    LET s1 == _ensure_node_checkpoint(st, n)
    IN  [s1 EXCEPT !.nodes[n] =
            [@ EXCEPT !.status = IN_PROGRESS, !.started_at = Now,
                      !.completed_at = None, !.model_used = OrEmpty(model),
                      !.output_summary = None, !.artifacts = <<>>,
                      !.error_details = None]]

(* A completion record that leaves the status as it was. *)
record_node_completion_KeepStatus(st, n, outcome) ==
    LET s1 == _ensure_node_checkpoint(st, n)
    IN  [s1 EXCEPT !.nodes[n] =
            [@ EXCEPT !.completed_at = Now,
                      !.output_summary =
                          Truncate(OrEmpty(outcome.output_summary),
                                   SUMMARY_LIMIT),
                      !.model_used = OrEmpty(outcome.model_used),
                      !.artifacts = outcome.artifacts,
                      !.error_details = outcome.error_details]]

record_node_completion(st, n, outcome) ==
    LET s1 == _ensure_node_checkpoint(st, n)
    IN  [s1 EXCEPT !.nodes[n] =
            [@ EXCEPT !.status = outcome.status, !.completed_at = Now,
                      !.output_summary =
                          Truncate(OrEmpty(outcome.output_summary),
                                   SUMMARY_LIMIT),
                      !.model_used = OrEmpty(outcome.model_used),
                      !.artifacts = outcome.artifacts,
                      !.error_details = outcome.error_details]]

get_status_map(st) == [n \in DOMAIN st.nodes |-> st.nodes[n].status]

RECURSIVE Bfs(_, _, _)
Bfs(g, queue, to_reset) ==
    IF queue = <<>> THEN to_reset
    ELSE LET n == Head(queue)
         IN  IF n \in to_reset \/ n \notin NodeSet(g)
             THEN Bfs(g, Tail(queue), to_reset)
             ELSE Bfs(g,
                      Tail(queue) \o
                          SelectSeq(get_downstream_nodes(g, n),
                                    LAMBDA d : d \notin to_reset \cup {n}),
                      to_reset \cup {n})

(* An invalidation that keeps the entries of the reset nodes only. *)
invalidate_nodes_DropOthers(g, st, node_ids) ==
    LET to_reset == Bfs(g, node_ids, {})
    IN  [state |-> IF to_reset = {} THEN st
                   ELSE [st EXCEPT !.nodes =
                            [n \in to_reset |-> NodeCheckpoint(PENDING)]],
         changed |-> to_reset # {}]

(* An invalidation that resets the seeds and their direct successors. *)
invalidate_nodes_OneStep(g, st, node_ids) ==
    LET seeds == Range(node_ids) \cap NodeSet(g)
        to_reset == seeds \cup
                    UNION {Range(get_downstream_nodes(g, n)) : n \in seeds}
        ids == DOMAIN st.nodes \cup to_reset
    IN  [state |-> [st EXCEPT !.nodes =
                      [n \in ids |->
                          IF n \in to_reset
                          THEN _reset_node_checkpoint(
                                   _ensure_node_checkpoint(st, n).nodes[n])
                          ELSE st.nodes[n]]],
         changed |-> to_reset # {}]

(* invalidate_nodes: the state after the call and whether it is written. *)
invalidate_nodes(g, st, node_ids) ==
    LET to_reset == Bfs(g, node_ids, {})
        ids == DOMAIN st.nodes \cup to_reset
    IN  [state |-> [st EXCEPT !.nodes =
                      [n \in ids |->
                          IF n \in to_reset
                          THEN _reset_node_checkpoint(
                                   _ensure_node_checkpoint(st, n).nodes[n])
                          ELSE st.nodes[n]]],
         changed |-> to_reset # {}]

_find_resumable_run_dir(fs, ds, graph_hash) ==
    LET match == {r \in ds : IsJson(fs[r]) /\ fs[r].graph_hash = graph_hash}
    IN  IF match = {} THEN 0
        ELSE CHOOSE r \in match : \A q \in match : q <= r

-----------------------------------------------------------------------------
(* Environment: what the planner and the node agents can answer *)

NodeIds == {"a", "b", "c"}

FamilyEdges ==
    <<Edge("a", "b", ALWAYS), Edge("a", "b", PASS), Edge("a", "c", FAIL),
      Edge("b", "c", ALWAYS), Edge("b", "c", NOERR),
      Edge("a", "z", ALWAYS)>>

RECURSIVE Pick(_, _)
Pick(i, S) ==
    IF i > Len(FamilyEdges) THEN <<>>
    ELSE (IF i \in S THEN <<FamilyEdges[i]>> ELSE <<>>) \o Pick(i + 1, S)

Family ==
    {[nodes |-> <<"a", "b", "c">>, edges |-> Pick(1, S)] :
        S \in {S \in SUBSET (1..Len(FamilyEdges)) : Cardinality(S) <= MaxEdges}}

AltGraph == [nodes |-> <<"a">>, edges |-> <<>>]

BypassGraph ==
    [nodes |-> <<"a", "b", "c">>,
     edges |-> <<Edge("a", "b", ALWAYS), Edge("a", "c", FAIL)>>]

ChainGraph ==
    [nodes |-> <<"a", "b", "c">>,
     edges |-> <<Edge("a", "b", ALWAYS), Edge("b", "c", ALWAYS)>>]

FanGraph ==
    [nodes |-> <<"a", "b", "c">>,
     edges |-> <<Edge("a", "b", ALWAYS), Edge("a", "c", PASS)>>]

DiamondGraph ==
    [nodes |-> <<"a", "b", "c">>,
     edges |-> <<Edge("a", "b", ALWAYS), Edge("a", "c", ALWAYS),
                 Edge("b", "c", ALWAYS)>>]

TailGraph ==
    [nodes |-> <<"a", "b", "c">>, edges |-> <<Edge("b", "c", ALWAYS)>>]

(* The graphs a CheckpointManager is driven on in SpecMgr. *)
MgrGraphs == {ChainGraph, DiamondGraph}

(* The graphs the planner can answer with. *)
PlannerGraphs == {plan}

ModelHint == T("m")

Outcomes ==
    {NodeOutcome(COMPLETED, T("x"), <<T("f")>>, ModelHint, None),
     NodeOutcome(FAILED, T("x"), <<>>, ModelHint, T("e")),
     NodeOutcome(SKIPPED, T("x"), <<>>, ModelHint, None)}

(* Every cycle of every process can create one run directory. *)
(* What a caller of record_node_completion can pass: the outcomes of the
   handlers, an outcome whose error text is empty (_signal_error on blank
   details), one without summary and model, one whose summary ends in a
   blank. *)
ApiOutcomes ==
    Outcomes \cup
    {NodeOutcome(FAILED, T("x"), <<>>, ModelHint, Empty),
     NodeOutcome(COMPLETED, None, <<>>, None, None),
     NodeOutcome(COMPLETED, <<"x", Blank>>, <<>>, ModelHint, None)}

RunDirs == 1..(MaxCycles * (MaxRestarts + 1))

Max(S) == CHOOSE r \in S : \A q \in S : q <= r

(* f"run-{now}": the time has moved on since any earlier run was named. *)
NewRunDir(ds) == Max(ds \cup {0}) + 1

(* A translation that reports every outcome to the planner as done. *)
_node_outcome_to_result_AlwaysDone(n, outcome) ==
    [graph_node_id |-> n, signal |-> "done", error_type |-> "",
     details |-> None, merge_conflict |-> None,
     merge_success |-> outcome.merge_success,
     merge_details |-> outcome.merge_details]

(* A Python value used as a condition: None and the empty text are false. *)
Truthy(v) == v # None /\ v # Empty

(* The entry of pl_results for a node: the signal dictionary rebuilt from
   the outcome (an absent key is "" for error_type and None for the texts)
   and the merge fields of the outcome. *)
_node_outcome_to_result(n, outcome) ==
    [graph_node_id |-> n,
     signal |-> CASE outcome.status = COMPLETED -> "done"
                  [] outcome.status = SKIPPED -> "skipped"
                  [] OTHER -> "error",
     error_type |-> IF outcome.status \in {COMPLETED, SKIPPED} THEN ""
                    ELSE "execution_failed",
     details |-> IF outcome.status \in {COMPLETED, SKIPPED} THEN None
                 ELSE IF Truthy(outcome.error_details)
                 THEN outcome.error_details
                 ELSE outcome.output_summary,
     merge_conflict |-> IF outcome.merge_success = {FALSE}
                           /\ Truthy(outcome.merge_details)
                        THEN outcome.merge_details ELSE None,
     merge_success |-> outcome.merge_success,
     merge_details |-> outcome.merge_details]

(* _format_pl_result: the lines of the planner's context for one result.
   A line that is not written is "" or None. *)
_format_pl_result(pr) ==
    [Sprint |-> pr.graph_node_id,
     Signal |-> pr.signal,
     Error_type |-> IF pr.signal # "error" THEN ""
                    ELSE IF pr.error_type = "" THEN "unknown"
                    ELSE pr.error_type,
     Details |-> IF pr.signal = "error" THEN pr.details ELSE None,
     Merge |-> CASE pr.merge_success = {TRUE} -> T("succeeded")
                 [] pr.merge_success = {FALSE} -> pr.merge_details
                 [] OTHER -> None,
     Merge_conflict |-> IF Truthy(pr.merge_conflict) THEN pr.merge_conflict
                        ELSE None]

(* build_pm_context: the results of the last traversal, formatted. *)
build_pm_context(results) ==
    [i \in 1..Len(results) |-> _format_pl_result(results[i])]

detect_stuck_loop(history) ==
    /\ Len(history) >= STUCK_THRESHOLD
    /\ \A i \in (Len(history) - STUCK_THRESHOLD + 1)..Len(history) :
          history[i] = history[Len(history)]

-----------------------------------------------------------------------------
(* The driver process: run_orchestration *)

HandlerPcs == {"agent", "merge", "finally", "artifacts", "return"}

Alive ==
    pc \in {"cycle", "pm", "traverse", "dispatch", "execute", "rename", "idle"}
              \cup HandlerPcs

Op(name, arg) == [name |-> name, arg |-> arg]

MemoryInit ==
    /\ shutting_down' = FALSE
    /\ cycle_count' = 0
    /\ pm_error_retries' = 0
    /\ sprint_history' = <<>>
    /\ pl_results' = <<>>
    /\ node_results' = <<>>
    /\ graph' = NoGraph
    /\ run' = 0
    /\ state' = NoState
    /\ ready_nodes' = <<>>
    /\ idx' = 0
    /\ ret' = ""
    /\ dispatched' = <<>>
    /\ pm_failures' = <<>>
    /\ locals' = NoLocals

(* The process ends: return from run_orchestration or sys.exit. *)
Exit(code, why) ==
    /\ pc' = "exited"
    /\ exit_code' = code
    /\ op' = Op(why, "")
    /\ MemoryInit
    /\ UNCHANGED <<files, tmps, dirs, plan, restarts, ops, max_cycles, out, worktrees, repo>>

Init ==
    /\ files = [r \in RunDirs |-> NoFile]
    /\ tmps = [r \in RunDirs |-> NoFile]
    /\ dirs = {}
    /\ plan \in Family
    /\ pc = "cycle"
    /\ ret = ""
    /\ exit_code = 0
    /\ shutting_down = FALSE
    /\ cycle_count = 0
    /\ pm_error_retries = 0
    /\ sprint_history = <<>>
    /\ pl_results = <<>>
    /\ node_results = <<>>
    /\ graph = NoGraph
    /\ run = 0
    /\ state = NoState
    /\ ready_nodes = <<>>
    /\ idx = 0
    /\ op = Op("start", "")
    /\ dispatched = <<>>
    /\ restarts = 0
    /\ ops = 0
    /\ max_cycles = MaxCycles
    /\ pm_failures = <<>>
    /\ out = NoState
    /\ worktrees = {}
    /\ repo = CleanRepo
    /\ locals = NoLocals

(* A write that truncates checkpoint.json and fills it in place. *)
WriteTemp_InPlace(st, r, next) ==
    /\ state' = Touch(st)
    /\ tmps' = [tmps EXCEPT ![r] = Payload(Touch(st))]
    /\ files' = [files EXCEPT ![r] = Partial]
    /\ pc' = "rename"
    /\ ret' = next

(* _write_checkpoint, first half: updated_at is set and the payload is
   written to checkpoint.json.tmp and fsynced; Rename is the second half. *)
WriteTemp(st, r, next) ==
    /\ state' = Touch(st)
    /\ tmps' = [tmps EXCEPT ![r] = Payload(Touch(st))]
    /\ files' = files
    /\ pc' = "rename"
    /\ ret' = next

Rename ==
    /\ pc = "rename"
    /\ files' = [files EXCEPT ![run] = tmps[run]]
    /\ tmps' = [tmps EXCEPT ![run] = NoFile]
    /\ pc' = ret
    /\ ret' = ""
    /\ op' = Op("rename", "")
    /\ UNCHANGED <<dirs, plan, exit_code, shutting_down, cycle_count,
                   pm_error_retries, pm_failures, locals, sprint_history, pl_results, node_results,
                   graph, run, state, ready_nodes, idx, dispatched, restarts, ops, max_cycles, out, worktrees, repo>>

(* A loop head that starts a cycle without counting it. *)
CycleStart_NoCount ==
    /\ pc = "cycle"
    /\ IF cycle_count >= max_cycles THEN Exit(1, "max_cycles")
       ELSE IF shutting_down THEN Exit(0, "shutdown")
       ELSE /\ cycle_count' = cycle_count
            /\ pc' = "pm"
            /\ op' = Op("invoke_pm", "")
            /\ UNCHANGED <<files, tmps, dirs, plan, ret, exit_code,
                           shutting_down, pm_error_retries, pm_failures, locals, sprint_history,
                           pl_results, node_results, graph, run, state,
                           ready_nodes, idx, dispatched, restarts, ops, max_cycles, out, worktrees, repo>>

CycleStart ==
    /\ pc = "cycle"
    /\ IF cycle_count >= max_cycles THEN Exit(1, "max_cycles")
       ELSE IF shutting_down THEN Exit(0, "shutdown")
       ELSE /\ cycle_count' = cycle_count + 1
            /\ pc' = "pm"
            /\ op' = Op("invoke_pm", "")
            /\ UNCHANGED <<files, tmps, dirs, plan, ret, exit_code,
                           shutting_down, pm_error_retries, pm_failures, locals, sprint_history,
                           pl_results, node_results, graph, run, state,
                           ready_nodes, idx, dispatched, restarts, ops, max_cycles, out, worktrees, repo>>

(* The kind of planner failure behind a diagnostic of the driver. *)
FailureKinds == {"timeout", "invocation_error", "error_signal",
                 "unknown_signal", "empty_graph", "invalid_graph"}

(* A driver that keeps one retry for each kind of planner failure. *)
RetryPlanner_PerKind(why, history) ==
    IF why \notin Range(pm_failures)
    THEN /\ pm_error_retries' = pm_error_retries + 1
         /\ pm_failures' = Append(pm_failures, why)
         /\ locals' = locals
         /\ sprint_history' = history
         /\ pc' = "cycle"
         /\ op' = Op(why, "")
         /\ UNCHANGED <<files, tmps, dirs, plan, ret, exit_code,
                        shutting_down, cycle_count, pl_results,
                        node_results, graph, run, state, ready_nodes, idx,
                        dispatched, restarts, ops, max_cycles, out, worktrees, repo>>
    ELSE /\ exit_code' = 1
         /\ pc' = "exited"
         /\ op' = Op(why, pm_failures[Len(pm_failures)])
         /\ MemoryInit
         /\ UNCHANGED <<files, tmps, dirs, plan, restarts, ops, max_cycles, out, worktrees, repo>>

(* A planner failure of any kind: retried while pm_error_retries is below
   PM_ERROR_MAX_RETRIES, then the driver halts.  The halting diagnostic
   carries the failure that used the last retry. *)
RetryPlanner(why, history) ==
    IF pm_error_retries < PM_ERROR_MAX_RETRIES
    THEN /\ pm_error_retries' = pm_error_retries + 1
         /\ pm_failures' = Append(pm_failures, why)
         /\ locals' = locals
         /\ sprint_history' = history
         /\ pc' = "cycle"
         /\ op' = Op(why, "")
         /\ UNCHANGED <<files, tmps, dirs, plan, ret, exit_code,
                        shutting_down, cycle_count, pl_results,
                        node_results, graph, run, state, ready_nodes, idx,
                        dispatched, restarts, ops, max_cycles, out, worktrees, repo>>
    ELSE /\ exit_code' = 1
         /\ pc' = "exited"
         /\ op' = Op(why, IF pm_failures = <<>> THEN ""
                          ELSE pm_failures[Len(pm_failures)])
         /\ MemoryInit
         /\ UNCHANGED <<files, tmps, dirs, plan, restarts, ops, max_cycles, out, worktrees, repo>>

(* invoke_agent("pm") times out. *)
PlannerFails ==
    /\ pc = "pm"
    /\ RetryPlanner("timeout", sprint_history)

(* invoke_agent("pm") raises RuntimeError, the planner's signal is error,
   or its signal type is none of those the driver knows. *)
PlannerErrors ==
    /\ pc = "pm"
    /\ \E why \in {"invocation_error", "error_signal", "unknown_signal"} :
          RetryPlanner(why, sprint_history)

PlannerEnds ==
    /\ pc = "pm"
    /\ \E sig \in {"complete", "blocked"} :
          /\ pc' = "exited"
          /\ exit_code' = IF sig = "complete" THEN 0 ELSE 1
          /\ op' = Op(sig, "")
    /\ MemoryInit
    /\ UNCHANGED <<files, tmps, dirs, plan, restarts, ops, max_cycles, out, worktrees, repo>>

(* The planner answers next_graph: validation, stuck-loop check, run
   directory selection and construction of the CheckpointManager.  now is
   the name that the clock gives a new run directory. *)
(* A driver that leaves the retry counter as it is when a graph passes
   validation. *)
RetryCounterAfterPlanning_Kept == pm_error_retries

(* "Reset error retry counter on successful PM planning" (4595-4596). *)
RetryCounterAfterPlanning == 0

PlannerGraphAt(now) ==
    /\ pc = "pm"
    /\ \E g \in PlannerGraphs :
          LET history == sprint_history \o g.nodes
              h == _compute_graph_hash(g)
              found == _find_resumable_run_dir(files, dirs, h)
              r == IF found # 0 THEN found ELSE now
              m == ManagerInit(files[r], g, r)
          IN  IF g.nodes = <<>>
              THEN RetryPlanner("empty_graph", sprint_history)
              ELSE IF detect_stuck_loop(history)
              THEN /\ pc' = "exited"
                   /\ exit_code' = 1
                   /\ op' = Op("stuck_loop", "")
                   /\ MemoryInit
                   /\ UNCHANGED <<files, tmps, dirs, plan, restarts, ops, max_cycles, out, worktrees, repo>>
              ELSE IF ~validate(g).valid
              THEN RetryPlanner("invalid_graph", history)
              ELSE /\ sprint_history' = history
                   /\ pm_error_retries' = RetryCounterAfterPlanning
                   /\ pm_failures' = <<>>
                   /\ locals' = locals
                   /\ graph' = g
                   /\ run' = r
                   /\ dirs' = dirs \cup {r}
                   /\ node_results' = <<>>
                   /\ op' = Op("open", "")
                   /\ IF m.changed
                      THEN WriteTemp(m.state, r, "traverse")
                      ELSE /\ state' = m.state
                           /\ pc' = "traverse"
                           /\ UNCHANGED <<files, tmps, ret>>
                   /\ UNCHANGED <<plan, exit_code, shutting_down,
                                  cycle_count, pl_results, ready_nodes, idx,
                                  dispatched, restarts, ops, max_cycles, out, worktrees, repo>>

(* The planner answers next_graph at a time later than the names of all
   run directories. *)
PlannerGraph == PlannerGraphAt(NewRunDir(dirs))

(* A loop head that looks for an empty ready set before it looks for the
   end of the traversal. *)
Traverse_StuckFirst ==
    /\ pc = "traverse"
    /\ LET status_map == get_status_map(state)
           ready == get_ready_nodes(graph,
                                    _status_map_for_ready_nodes(status_map))
       IN  IF shutting_down THEN Exit(0, "shutdown")
           ELSE IF ready = <<>> THEN Exit(1, "pipeline_stuck")
           ELSE IF all_nodes_complete(graph, status_map)
           THEN /\ pl_results' = node_results
                /\ ready_nodes' = ready
                /\ idx' = 0
                /\ pc' = "cycle"
                /\ op' = Op("traversal_done", "")
                /\ UNCHANGED <<files, tmps, dirs, plan, ret,
                               exit_code, shutting_down, cycle_count,
                               pm_error_retries, pm_failures, locals, sprint_history,
                               node_results, graph, run, state,
                               dispatched, restarts, ops, max_cycles, out, worktrees, repo>>
           ELSE /\ ready_nodes' = ready
                /\ idx' = 1
                /\ pc' = "dispatch"
                /\ op' = Op("ready_set", "")
                /\ UNCHANGED <<files, tmps, dirs, plan, ret,
                               exit_code, shutting_down, cycle_count,
                               pm_error_retries, pm_failures, locals, sprint_history, pl_results,
                               node_results, graph, run, state, dispatched,
                               restarts, ops, max_cycles, out, worktrees, repo>>

(* Head of the traversal loop. *)
Traverse ==
    /\ pc = "traverse"
    /\ LET status_map == get_status_map(state)
           ready == get_ready_nodes(graph,
                                    _status_map_for_ready_nodes(status_map))
       IN  IF shutting_down THEN Exit(0, "shutdown")
           ELSE IF all_nodes_complete(graph, status_map)
           THEN /\ pl_results' = node_results
                /\ ready_nodes' = ready
                /\ idx' = 0
                /\ pc' = "cycle"
                /\ op' = Op("traversal_done", "")
                /\ UNCHANGED <<files, tmps, dirs, plan, ret,
                               exit_code, shutting_down, cycle_count,
                               pm_error_retries, pm_failures, locals, sprint_history,
                               node_results, graph, run, state,
                               dispatched, restarts, ops, max_cycles, out, worktrees, repo>>
           ELSE IF ready = <<>> THEN Exit(1, "pipeline_stuck")
           ELSE /\ ready_nodes' = ready
                /\ idx' = 1
                /\ pc' = "dispatch"
                /\ op' = Op("ready_set", "")
                /\ UNCHANGED <<files, tmps, dirs, plan, ret,
                               exit_code, shutting_down, cycle_count,
                               pm_error_retries, pm_failures, locals, sprint_history, pl_results,
                               node_results, graph, run, state, dispatched,
                               restarts, ops, max_cycles, out, worktrees, repo>>

(* A dispatch that marks the node in memory and invokes the handler without
   writing the checkpoint. *)
Dispatch_NoWrite ==
    /\ pc = "dispatch"
    /\ IF shutting_down THEN Exit(0, "shutdown")
       ELSE /\ state' = record_node_start(state, ready_nodes[idx], ModelHint)
            /\ pc' = "execute"
            /\ dispatched' = Append(dispatched, ready_nodes[idx])
            /\ op' = Op("record_node_start", ready_nodes[idx])
            /\ UNCHANGED <<files, tmps, ret, dirs, plan, exit_code,
                           shutting_down, cycle_count, pm_error_retries, pm_failures, locals,
                           sprint_history, pl_results, node_results, graph,
                           run, ready_nodes, idx, restarts, ops, max_cycles, out, worktrees, repo>>

(* An iteration of the for loop that does not look at the shutdown
   flag. *)
Dispatch_NoCheck ==
    /\ pc = "dispatch"
    /\ WriteTemp(record_node_start(state, ready_nodes[idx], ModelHint),
                 run, "execute")
    /\ dispatched' = Append(dispatched, ready_nodes[idx])
    /\ op' = Op("record_node_start", ready_nodes[idx])
    /\ UNCHANGED <<dirs, plan, exit_code,
                   shutting_down, cycle_count, pm_error_retries, pm_failures, locals,
                   sprint_history, pl_results, node_results, graph,
                   run, ready_nodes, idx, restarts, ops, max_cycles, out, worktrees, repo>>

(* One iteration of the for loop, up to the invocation of the handler. *)
Dispatch ==
    /\ pc = "dispatch"
    /\ IF shutting_down THEN Exit(0, "shutdown")
       ELSE /\ WriteTemp(record_node_start(state, ready_nodes[idx],
                                           ModelHint),
                         run, "execute")
            /\ dispatched' = Append(dispatched, ready_nodes[idx])
            /\ op' = Op("record_node_start", ready_nodes[idx])
            /\ UNCHANGED <<dirs, plan, exit_code,
                           shutting_down, cycle_count, pm_error_retries, pm_failures, locals,
                           sprint_history, pl_results, node_results, graph,
                           run, ready_nodes, idx, restarts, ops, max_cycles, out, worktrees, repo>>

(* The driver takes the outcome of handler.execute: it is turned into a
   result for the planner and recorded in the checkpoint. *)
RecordOutcome(outcome) ==
    /\ node_results' =
           Append(node_results,
                  _node_outcome_to_result(ready_nodes[idx], outcome))
    /\ WriteTemp(record_node_completion(state, ready_nodes[idx], outcome),
                 run,
                 IF idx = Len(ready_nodes) THEN "traverse" ELSE "dispatch")
    /\ idx' = idx + 1
    /\ op' = Op("record_node_completion", ready_nodes[idx])
    /\ UNCHANGED <<dirs, plan, exit_code, shutting_down, cycle_count,
                   pm_error_retries, pm_failures, sprint_history, pl_results,
                   graph, run, ready_nodes, dispatched, restarts, ops,
                   max_cycles, out, worktrees, repo>>

(* The handler returns an outcome, which is recorded. *)
HandlerReturns ==
    /\ pc = "execute"
    /\ locals' = locals
    /\ \E outcome \in Outcomes : RecordOutcome(outcome)

(* The worktree that the finally clause of SoftwareHandler.execute removes
   when sys.exit unwinds the handler. *)
HeldWorktree ==
    IF locals.kind = "software" THEN locals.worktree_path ELSE {}

(* The process dies where it stands; a write in progress leaves the
   temporary file complete or cut short.  sys.exit in the interrupt
   handler runs the finally clauses on its way out, a kill does not. *)
Die(code, why) ==
    /\ pc' = IF why = "crash" THEN "crashed" ELSE "exited"
    /\ exit_code' = code
    /\ op' = Op(why, "")
    /\ tmps' \in IF pc = "rename"
                 THEN {tmps, [tmps EXCEPT ![run] = Partial]}
                 ELSE {tmps}
    /\ worktrees' = IF why = "forced_shutdown"
                    THEN worktrees \ HeldWorktree ELSE worktrees
    /\ MemoryInit
    /\ UNCHANGED <<files, dirs, plan, restarts, ops, max_cycles, out, repo>>

(* _handle_sigint *)
Sigint ==
    /\ Alive
    /\ IF shutting_down THEN Die(1, "forced_shutdown")
       ELSE /\ shutting_down' = TRUE
            /\ op' = Op("sigint", "")
            /\ UNCHANGED <<files, tmps, dirs, plan, pc, ret,
                           exit_code, cycle_count, pm_error_retries, pm_failures, locals,
                           sprint_history, pl_results, node_results, graph,
                           run, state, ready_nodes, idx, dispatched,
                           restarts, ops, max_cycles, out, worktrees, repo>>

Crash ==
    /\ Alive
    /\ Die(-1, "crash")

Restart ==
    /\ pc \in {"exited", "crashed"}
    /\ restarts < MaxRestarts
    /\ restarts' = restarts + 1
    /\ pc' = "cycle"
    /\ exit_code' = 0
    /\ op' = Op("start", "")
    /\ MemoryInit
    /\ UNCHANGED <<files, tmps, dirs, plan, ops, max_cycles, out, worktrees, repo>>

Next ==
    \/ CycleStart
    \/ PlannerFails
    \/ PlannerEnds
    \/ PlannerGraph
    \/ Traverse
    \/ Dispatch
    \/ HandlerReturns
    \/ Rename
    \/ Sigint
    \/ Crash
    \/ Restart

Spec == Init /\ [][Next]_vars

-----------------------------------------------------------------------------
(* A CheckpointManager driven through its public methods on run directory 1 *)

MgrRest ==
    UNCHANGED <<dirs, plan, exit_code, shutting_down, cycle_count,
                pm_error_retries, pm_failures, locals, sprint_history, pl_results, node_results,
                ready_nodes, idx, dispatched>>

InitMgr ==
    /\ files = [r \in RunDirs |-> NoFile]
    /\ tmps = [r \in RunDirs |-> NoFile]
    /\ dirs = {1}
    /\ plan \in MgrGraphs
    /\ pc = "idle"
    /\ ret = ""
    /\ exit_code = 0
    /\ shutting_down = FALSE
    /\ cycle_count = 0
    /\ pm_error_retries = 0
    /\ sprint_history = <<>>
    /\ pl_results = <<>>
    /\ node_results = <<>>
    /\ graph = plan
    /\ run = 1
    /\ state = _new_checkpoint_state(1, plan)
    /\ ready_nodes = <<>>
    /\ idx = 0
    /\ op = Op("open", "")
    /\ dispatched = <<>>
    /\ restarts = 0
    /\ ops = 0
    /\ max_cycles = MaxCycles
    /\ pm_failures = <<>>
    /\ out = NoState
    /\ worktrees = {}
    /\ repo = CleanRepo
    /\ locals = NoLocals

MgrStart ==
    /\ pc = "idle"
    /\ ops < MaxOps
    /\ \E n \in NodeSet(graph) :
          /\ WriteTemp(record_node_start(state, n, ModelHint), run, "idle")
          /\ op' = Op("record_node_start", n)
    /\ ops' = ops + 1
    /\ UNCHANGED <<graph, run, restarts, max_cycles, out, worktrees, repo>>
    /\ MgrRest

MgrComplete ==
    /\ pc = "idle"
    /\ ops < MaxOps
    /\ \E n \in NodeSet(graph), outcome \in ApiOutcomes :
          /\ WriteTemp(record_node_completion(state, n, outcome), run, "idle")
          /\ op' = Op("record_node_completion", n)
    /\ ops' = ops + 1
    /\ UNCHANGED <<graph, run, restarts, max_cycles, out, worktrees, repo>>
    /\ MgrRest

MgrInvalidate ==
    /\ pc = "idle"
    /\ ops < MaxOps
    /\ \E v \in NodeIds \cup {"z"} :
          LET m == invalidate_nodes(graph, state, <<v>>)
          IN  /\ op' = Op("invalidate_nodes", v)
              /\ IF m.changed THEN WriteTemp(m.state, run, "idle")
                 ELSE UNCHANGED <<state, tmps, files, pc, ret>>
    /\ ops' = ops + 1
    /\ UNCHANGED <<graph, run, restarts, max_cycles, out, worktrees, repo>>
    /\ MgrRest

(* A new process constructs a CheckpointManager on the run directory. *)
MgrOpen ==
    /\ pc = "crashed"
    /\ restarts < MaxRestarts
    /\ restarts' = restarts + 1
    /\ \E g \in {plan, AltGraph} :
          LET m == ManagerInit(files[1], g, 1)
          IN  /\ graph' = g
              /\ IF m.changed THEN WriteTemp(m.state, 1, "idle")
                 ELSE /\ state' = m.state
                      /\ pc' = "idle"
                      /\ UNCHANGED <<files, tmps, ret>>
    /\ run' = 1
    /\ op' = Op("open", "")
    /\ UNCHANGED <<ops, max_cycles, out, worktrees, repo>>
    /\ MgrRest

NextMgr ==
    \/ MgrStart
    \/ MgrComplete
    \/ MgrInvalidate
    \/ Rename
    \/ Crash
    \/ MgrOpen

SpecMgr == InitMgr /\ [][NextMgr]_vars

-----------------------------------------------------------------------------
(* GraphEngine.validate on its own: every graph over three nodes whose
   edges may name an id that is no node, repeat, or loop. *)

ValEndpoints == NodeIds \cup {"z"}

ValEdgeSeqs ==
    UNION {[1..k -> {Edge(s, t, ALWAYS) : s, t \in ValEndpoints}] :
              k \in 0..MaxValEdges}

Orders(S) == {o \in [1..Cardinality(S) -> S] : Range(o) = S}

InitVal ==
    /\ files = [r \in RunDirs |-> NoFile]
    /\ tmps = [r \in RunDirs |-> NoFile]
    /\ dirs = {}
    /\ plan \in {[nodes |-> <<"a", "b", "c">>, edges |-> es] :
                    es \in ValEdgeSeqs}
    /\ pc = "validate"
    /\ ret = ""
    /\ exit_code = 0
    /\ shutting_down = FALSE
    /\ cycle_count = 0
    /\ pm_error_retries = 0
    /\ sprint_history = <<>>
    /\ pl_results = <<>>
    /\ node_results = <<>>
    /\ graph = NoGraph
    /\ run = 0
    /\ state = NoState
    /\ ready_nodes = <<>>
    /\ idx = 0
    /\ op = Op("start", "")
    /\ dispatched = <<>>
    /\ restarts = 0
    /\ ops = 0
    /\ max_cycles = MaxCycles
    /\ pm_failures = <<>>
    /\ out = NoState
    /\ worktrees = {}
    /\ repo = CleanRepo
    /\ locals = NoLocals

Validate ==
    /\ pc = "validate"
    /\ \E order \in Orders(validate(plan).cyclic_nodes) :
          LET errors == validate_errors(plan, order)
          IN  out' = [valid |-> Len(errors) = 0, errors |-> errors]
    /\ pc' = "validated"
    /\ op' = Op("validate", "")
    /\ UNCHANGED <<files, tmps, dirs, plan, ret, exit_code, shutting_down,
                   cycle_count, pm_error_retries, pm_failures, locals,
                   sprint_history, pl_results, node_results, graph, run,
                   state, ready_nodes, idx, dispatched, restarts, ops,
                   max_cycles, worktrees, repo>>

NextVal == Validate

SpecVal == InitVal /\ [][NextVal]_vars

-----------------------------------------------------------------------------
(* One run of the driver from an empty project to its exit, under a
   max_cycles of the command line, in which every agent invocation returns
   and the driver takes its next step in the end. *)

InitRun ==
    /\ files = [r \in RunDirs |-> NoFile]
    /\ tmps = [r \in RunDirs |-> NoFile]
    /\ dirs = {}
    /\ plan \in Family \cup {AltGraph}
    /\ pc = "cycle"
    /\ ret = ""
    /\ exit_code = 0
    /\ shutting_down = FALSE
    /\ cycle_count = 0
    /\ pm_error_retries = 0
    /\ sprint_history = <<>>
    /\ pl_results = <<>>
    /\ node_results = <<>>
    /\ graph = NoGraph
    /\ run = 0
    /\ state = NoState
    /\ ready_nodes = <<>>
    /\ idx = 0
    /\ op = Op("start", "")
    /\ dispatched = <<>>
    /\ restarts = 0
    /\ ops = 0
    /\ max_cycles \in 1..(MaxCycles + 1)
    /\ pm_failures = <<>>
    /\ out = NoState
    /\ worktrees = {}
    /\ repo = CleanRepo
    /\ locals = NoLocals

DriverStep ==
    \/ CycleStart
    \/ PlannerFails
    \/ PlannerErrors
    \/ PlannerEnds
    \/ PlannerGraph
    \/ Traverse
    \/ Dispatch
    \/ HandlerReturns
    \/ Rename

NextRun ==
    \/ DriverStep
    \/ Sigint

SpecRun == InitRun /\ [][NextRun]_vars /\ WF_vars(DriverStep)

-----------------------------------------------------------------------------
(* _compute_graph_hash on graphs with all their fields.  A graph is its
   nodes and its edges in the order of their declaration (the insertion
   order of the dictionary, the order of the list) and its domain. *)

(* The variables that the specifications of single functions leave at
   their initial values. *)
AtRest ==
    /\ files = [r \in RunDirs |-> NoFile]
    /\ tmps = [r \in RunDirs |-> NoFile]
    /\ dirs = {}
    /\ ret = ""
    /\ exit_code = 0
    /\ shutting_down = FALSE
    /\ cycle_count = 0
    /\ pm_error_retries = 0
    /\ sprint_history = <<>>
    /\ pl_results = <<>>
    /\ node_results = <<>>
    /\ run = 0
    /\ ready_nodes = <<>>
    /\ idx = 0
    /\ op = Op("start", "")
    /\ dispatched = <<>>
    /\ restarts = 0
    /\ ops = 0
    /\ max_cycles = MaxCycles
    /\ pm_failures = <<>>
    /\ worktrees = {}
    /\ repo = CleanRepo
    /\ locals = NoLocals

StaysAtRest ==
    UNCHANGED <<files, tmps, dirs, ret, exit_code, shutting_down,
                cycle_count, pm_error_retries, pm_failures, locals,
                sprint_history, pl_results, node_results, run,
                ready_nodes, idx, dispatched, restarts, ops,
                max_cycles, worktrees, repo>>

(* An enum member and its value. *)
Member(enum, value) == [enum |-> enum, value |-> value]

enum_or_value(m) == m.value

(* A GraphNode: the fields the planner varies in this model and the
   defaults of the dataclass for the others. *)
GraphNode(id, node_class, prd_path) ==
    [id |-> id, name |-> id, type |-> Member("NodeType", "task"),
     node_class |-> node_class, handler |-> "software", inputs |-> <<>>,
     context_fidelity |-> Member("ContextFidelityMode", "minimal"),
     complexity_hint |-> None, discovery_tools |-> <<>>, criteria |-> <<>>,
     retry_target |-> None, max_retries |-> 3, prd_path |-> prd_path,
     branch |-> None, output_path |-> None, source_materials |-> <<>>]

(* The order of Python on the texts of the model. *)
IdOrder == <<"a", "b", "c", "z">>

ConditionOrder == <<"always", NOERR, FAIL, PASS>>

Rank(order, x) == CHOOSE k \in 1..Len(order) : order[k] = x

(* edge.condition or "always" *)
ConditionOrAlways(c) == IF c = "" THEN ALWAYS ELSE c

EdgeKeyBefore(e, f) ==
    LET se == Rank(IdOrder, e.source)
        sf == Rank(IdOrder, f.source)
        te == Rank(IdOrder, e.target)
        tf == Rank(IdOrder, f.target)
        ce == Rank(ConditionOrder, ConditionOrAlways(e.condition))
        cf == Rank(ConditionOrder, ConditionOrAlways(f.condition))
    IN  \/ se < sf
        \/ se = sf /\ te < tf
        \/ se = sf /\ te = tf /\ ce < cf

canonical_node(node) ==
    [node EXCEPT !.type = enum_or_value(@),
                 !.context_fidelity = enum_or_value(@)]

canonical_edge(e) ==
    [source |-> e.source, target |-> e.target,
     condition |-> ConditionOrAlways(e.condition)]

(* A canonical form that keeps the edges in the order of declaration. *)
canonical_graph_DeclaredOrder(g) ==
    LET nodes == SortSeq(g.nodes,
                         LAMBDA m, n : Rank(IdOrder, m.id)
                                           < Rank(IdOrder, n.id))
    IN  [domain |-> enum_or_value(g.domain),
         nodes |-> [i \in 1..Len(nodes) |-> canonical_node(nodes[i])],
         edges |-> [i \in 1..Len(g.edges) |-> canonical_edge(g.edges[i])]]

(* canonical_graph of _compute_graph_hash: the nodes by id, the edges by
   source, target and condition, every enum as its value.  The hash is
   the SHA-256 of its JSON text with sorted keys, which the model takes
   for this structure. *)
canonical_graph(g) ==
    LET nodes == SortSeq(g.nodes,
                         LAMBDA m, n : Rank(IdOrder, m.id)
                                           < Rank(IdOrder, n.id))
        edges == SortSeq(g.edges, EdgeKeyBefore)
    IN  [domain |-> enum_or_value(g.domain),
         nodes |-> [i \in 1..Len(nodes) |-> canonical_node(nodes[i])],
         edges |-> [i \in 1..Len(edges) |-> canonical_edge(edges[i])]]

(* The graphs given to the hash: nodes a and b declared in either order,
   a with or without a PRD path, b of either class; up to MaxHashEdges
   edges from a to b, with conditions as _parse_graph_signal leaves them
   (never empty); either domain. *)
HashNodeSeqs ==
    UNION {{<<GraphNode("a", "impl", prd), GraphNode("b", cls, None)>>,
            <<GraphNode("b", cls, None), GraphNode("a", "impl", prd)>>} :
              prd \in {None, T("p")}, cls \in {"impl", "planning"}}

HashEdgeSeqs ==
    UNION {[1..k -> {Edge("a", "b", ALWAYS), Edge("a", "b", PASS)}] :
              k \in 0..MaxHashEdges}

HashGraphs ==
    {[nodes |-> ns, edges |-> es, domain |-> Member("DomainType", d)] :
        ns \in HashNodeSeqs, es \in HashEdgeSeqs,
        d \in {"software", "content"}}

InitHash ==
    /\ AtRest
    /\ plan \in HashGraphs
    /\ graph \in HashGraphs
    /\ pc = "hash"
    /\ state = NoState
    /\ out = NoState

(* The hash of the graph of an earlier cycle is in the checkpoint of run
   directory 1; the driver hashes the graph of this cycle and looks for a
   run directory to resume. *)
Hash ==
    /\ pc = "hash"
    /\ LET h1 == canonical_graph(plan)
           h2 == canonical_graph(graph)
           fs == [r \in RunDirs |-> IF r = 1 THEN [graph_hash |-> h1]
                                    ELSE NoFile]
       IN  out' = [h1 |-> h1, h2 |-> h2,
                   found |-> _find_resumable_run_dir(fs, {1}, h2)]
    /\ pc' = "hashed"
    /\ op' = Op("hash", "")
    /\ UNCHANGED <<plan, graph, state>>
    /\ StaysAtRest

NextHash == Hash

SpecHash == InitHash /\ [][NextHash]_vars

-----------------------------------------------------------------------------
(* The traversal of a graph with typed nodes: the contexts the driver
   builds, the promotion of the fidelity after a discovery node, the order
   of dispatch.  plan is the graph as the planner declares it, graph the
   Graph object of the process, out the log of the contexts handed to the
   handlers. *)

MINIMAL == Member("ContextFidelityMode", "minimal")
PARTIAL == Member("ContextFidelityMode", "partial")
FULL == Member("ContextFidelityMode", "full")
DISCOVERY == Member("NodeType", "discovery")
TASK == Member("NodeType", "task")

ContextMd == T("CONTEXT.md")

(* The engine's view of a graph: the ids in the order of graph.nodes. *)
IdGraph(G) ==
    [nodes |-> [i \in 1..Len(G.nodes) |-> G.nodes[i].id], edges |-> G.edges]

(* graph.nodes[id] *)
NodeOf(G, id) == CHOOSE n \in Range(G.nodes) : n.id = id

get_upstream_nodes(g, v) ==
    [i \in 1..Len(reverse_edges(g, v)) |-> reverse_edges(g, v)[i].source]

RECURSIVE Closure(_, _, _)
Closure(g, seen, forward) ==
    LET next == seen \cup
                {e.target : e \in {f \in Range(g.edges) :
                                      forward /\ f.source \in seen}}
                \cup
                {e.source : e \in {f \in Range(g.edges) :
                                      ~forward /\ f.target \in seen}}
    IN  IF next = seen THEN seen ELSE Closure(g, next, forward)

_collect_downstream_nodes(g, start) ==
    Closure(g, Range(get_downstream_nodes(g, start)), TRUE)

_collect_upstream_execution_path(g, v) ==
    Closure(g, Range(get_upstream_nodes(g, v)), FALSE)

get_output_summary(st, n) ==
    IF n \in DOMAIN st.nodes THEN st.nodes[n].output_summary ELSE None

get_artifacts(st, n) ==
    IF n \in DOMAIN st.nodes THEN st.nodes[n].artifacts ELSE <<>>

(* Whether the CONTEXT.md of an upstream node is found: the file is on
   disk when DiscoveryHandler wrote it, and then it is in the artifacts. *)
_resolve_discovery_context_artifact(st, u) ==
    ContextMd \in Range(get_artifacts(st, u))

(* build_node_context: the fidelity line, the node whose parameters are
   rendered, and which upstream nodes contribute a summary, the text of
   their CONTEXT.md and their full output.  The texts of the model stay
   far below the 100K tokens at which full falls back to partial. *)
build_node_context(node, G, st, fidelity) ==
    LET g == IdGraph(G)
        direct == Range(get_upstream_nodes(g, node.id))
        HasSummary(u) == strip(OrEmpty(get_output_summary(st, u))) # Empty
        wide == fidelity \in {PARTIAL, FULL}
    IN  [fidelity |-> fidelity.value,
         node_parameters |-> node.id,
         upstream_summaries |->
             IF wide THEN {u \in direct : HasSummary(u)} ELSE {},
         discovery_contents |->
             IF wide
             THEN {u \in direct :
                      /\ NodeOf(G, u).type = DISCOVERY
                      /\ _resolve_discovery_context_artifact(st, u)}
             ELSE {},
         full_outputs |->
             IF fidelity = FULL
             THEN {u \in _collect_upstream_execution_path(g, node.id) :
                      HasSummary(u)}
             ELSE {}]

(* The promotion after the completion of node d (4703-4752): every
   transitive downstream node of class planning at minimal becomes
   partial, in the Graph object of the process. *)
Promote(G, d, outcome) ==
    IF NodeOf(G, d).type = DISCOVERY /\ outcome.status = COMPLETED
    THEN [G EXCEPT !.nodes =
            [i \in 1..Len(G.nodes) |->
                IF /\ G.nodes[i].id
                          \in _collect_downstream_nodes(IdGraph(G), d)
                   /\ G.nodes[i].node_class = "planning"
                   /\ G.nodes[i].context_fidelity = MINIMAL
                THEN [G.nodes[i] EXCEPT !.context_fidelity = PARTIAL]
                ELSE G.nodes[i]]]
    ELSE G

(* The outcomes of DiscoveryHandler.execute: the agent's signal with
   CONTEXT.md written by the handler, or the failure to write the file. *)
DiscoveryOutcomes ==
    {NodeOutcome(COMPLETED, T("x"), <<ContextMd>>, ModelHint, None),
     NodeOutcome(FAILED, T("x"), <<ContextMd>>, ModelHint, T("e")),
     NodeOutcome(FAILED, T("w"), <<>>, ModelHint, T("w"))}

HandlerOutcomes(node) ==
    IF node.handler = "discovery" THEN DiscoveryOutcomes
    ELSE {o \in Outcomes : o.status # SKIPPED}

TypedNode(id, type, node_class, fidelity) ==
    [GraphNode(id, node_class, None) EXCEPT
        !.type = type,
        !.handler = IF type = DISCOVERY THEN "discovery" ELSE "software",
        !.context_fidelity = fidelity]

(* The graphs of the planner: a, a discovery node or a task, before b and
   c, as a chain or as a fan; the nodes declared in ascending or in
   descending order of their ids. *)
TypedGraphs ==
    {[nodes |-> IF ascending THEN <<na, nb, nc>> ELSE <<nc, nb, na>>,
      edges |-> IF chain
                THEN <<Edge("a", "b", ALWAYS), Edge("b", "c", ALWAYS)>>
                ELSE <<Edge("a", "b", ALWAYS), Edge("a", "c", ALWAYS)>>,
      domain |-> Member("DomainType", "software")] :
        na \in {TypedNode("a", t, "impl", MINIMAL) : t \in {DISCOVERY, TASK}},
        nb \in {TypedNode("b", TASK, cls, f) :
                   cls \in {"planning", "impl"}, f \in {MINIMAL, FULL}},
        nc \in {TypedNode("c", TASK, "planning", f) :
                   f \in {MINIMAL, PARTIAL}},
        ascending \in BOOLEAN, chain \in BOOLEAN}

TypedRest ==
    UNCHANGED <<tmps, dirs, plan, ret, cycle_count, pm_error_retries,
                pm_failures, locals, sprint_history, pl_results,
                node_results, run, ops, max_cycles, worktrees, repo>>

InitTyped ==
    /\ plan \in TypedGraphs
    /\ graph = plan
    /\ files = [r \in RunDirs |-> NoFile]
    /\ tmps = [r \in RunDirs |-> NoFile]
    /\ dirs = {1}
    /\ run = 1
    /\ state = _new_checkpoint_state(1, IdGraph(plan))
    /\ pc = "traverse"
    /\ ret = ""
    /\ exit_code = 0
    /\ shutting_down = FALSE
    /\ cycle_count = 1
    /\ pm_error_retries = 0
    /\ sprint_history = <<>>
    /\ pl_results = <<>>
    /\ node_results = <<>>
    /\ ready_nodes = <<>>
    /\ idx = 0
    /\ op = Op("start", "")
    /\ dispatched = <<>>
    /\ restarts = 0
    /\ ops = 0
    /\ max_cycles = MaxCycles
    /\ pm_failures = <<>>
    /\ out = <<>>
    /\ worktrees = {}
    /\ repo = CleanRepo
    /\ locals = NoLocals

(* check_shutdown with the flag set: the process exits with code 0. *)
TypedExit ==
    /\ pc' = "exited"
    /\ exit_code' = 0
    /\ op' = Op("shutdown", "")
    /\ UNCHANGED <<files, graph, state, ready_nodes, idx, dispatched,
                   shutting_down, restarts, out>>
    /\ TypedRest

(* One pass of the traversal loop up to the for loop (4629-4659). *)
TypedTraverse ==
    /\ pc = "traverse"
    /\ LET status_map == get_status_map(state)
           ready == get_ready_nodes(IdGraph(graph),
                                    _status_map_for_ready_nodes(status_map))
       IN  IF shutting_down THEN TypedExit
           ELSE /\ pc' = IF all_nodes_complete(IdGraph(graph), status_map)
                         THEN "cycle"
                         ELSE IF ready = <<>> THEN "stuck" ELSE "dispatch"
                /\ ready_nodes' = ready
                /\ idx' = 1
                /\ op' = Op("ready_set", "")
                /\ exit_code' = IF pc' = "stuck" THEN 1 ELSE exit_code
                /\ UNCHANGED <<files, graph, state, dispatched,
                               shutting_down, restarts, out>>
                /\ TypedRest

(* One iteration of the for loop over ready_nodes (4660-4770): the start
   record, the context, the handler, the completion record and the
   promotion. *)
TypedDispatch ==
    /\ pc = "dispatch"
    /\ IF shutting_down THEN TypedExit
       ELSE LET n == ready_nodes[idx]
                node == NodeOf(graph, n)
                s1 == Touch(record_node_start(state, n, ModelHint))
                context == build_node_context(node, graph, s1,
                                              node.context_fidelity)
            IN  \E outcome \in HandlerOutcomes(node) :
                   LET s2 == Touch(record_node_completion(s1, n, outcome))
                   IN  /\ state' = s2
                       /\ files' = [files EXCEPT ![run] = Payload(s2)]
                       /\ out' = Append(out, [node |-> n,
                                              context |-> context])
                       /\ dispatched' = Append(dispatched, n)
                       /\ graph' = Promote(graph, n, outcome)
                       /\ idx' = idx + 1
                       /\ pc' = IF idx = Len(ready_nodes) THEN "traverse"
                                ELSE "dispatch"
                       /\ op' = Op("execute", n)
                       /\ UNCHANGED <<exit_code, ready_nodes,
                                      shutting_down, restarts>>
                       /\ TypedRest

(* _handle_sigint, the first time. *)
TypedSigint ==
    /\ pc \in {"traverse", "dispatch"}
    /\ ~shutting_down
    /\ shutting_down' = TRUE
    /\ op' = Op("sigint", "")
    /\ UNCHANGED <<files, graph, state, ready_nodes, idx, dispatched,
                   pc, exit_code, restarts, out>>
    /\ TypedRest

(* The orchestrator is started again after a shutdown and the planner
   declares the same graph: the graph is parsed anew and the manager is
   constructed on the checkpoint of the run directory. *)
TypedResume ==
    /\ pc = "exited"
    /\ restarts < MaxRestarts
    /\ LET m == ManagerInit(files[run], IdGraph(plan), run)
       IN  /\ state' = m.state
           /\ files' = IF m.changed
                       THEN [files EXCEPT ![run] = Payload(Touch(m.state))]
                       ELSE files
    /\ graph' = plan
    /\ restarts' = restarts + 1
    /\ shutting_down' = FALSE
    /\ exit_code' = 0
    /\ ready_nodes' = <<>>
    /\ idx' = 0
    /\ pc' = "traverse"
    /\ op' = Op("open", "")
    /\ UNCHANGED <<dispatched, out>>
    /\ TypedRest

NextTyped ==
    \/ TypedTraverse
    \/ TypedDispatch
    \/ TypedSigint
    \/ TypedResume

SpecTyped == InitTyped /\ [][NextTyped]_vars

-----------------------------------------------------------------------------
(* The legacy next_task payload: _sprints_to_graph and the traversal of
   the graph it builds *)

(* str.lower() on the characters of the model. *)
lower(c) == IF c = "X" THEN "x" ELSE c

(* The characters the pattern [a-z0-9-] matches. *)
IdChars ==
    {"a", "b", "c", "d", "e", "f", "g", "h", "i", "j", "k", "l", "m", "n",
     "o", "p", "q", "r", "s", "t", "u", "v", "w", "x", "y", "z",
     "0", "1", "2", "3", "4", "5", "6", "7", "8", "9", "-"}

(* str(n) of a number of one digit. *)
Str(n) == <<"0", "1", "2", "3", "4", "5", "6", "7", "8", "9">>[n + 1]

(* The string of a sequence of characters. *)
RECURSIVE join(_)
join(chars) == IF chars = <<>> THEN "" ELSE Head(chars) \o join(Tail(chars))

(* re.sub(r"-{2,}", "-", s) *)
RECURSIVE squeeze(_)
squeeze(s) ==
    IF Len(s) < 2 THEN s
    ELSE IF s[1] = "-" /\ s[2] = "-" THEN squeeze(Tail(s))
    ELSE <<s[1]>> \o squeeze(Tail(s))

(* str.strip("-") *)
RECURSIVE strip_dashes(_)
strip_dashes(s) ==
    IF s # <<>> /\ Head(s) = "-" THEN strip_dashes(Tail(s))
    ELSE IF s # <<>> /\ s[Len(s)] = "-"
    THEN strip_dashes(SubSeq(s, 1, Len(s) - 1))
    ELSE s

_sanitize_graph_node_id(raw_name) ==
    LET replaced == [i \in 1..Len(raw_name) |->
                        IF lower(raw_name[i]) \in IdChars
                        THEN lower(raw_name[i]) ELSE "-"]
        node_id == strip_dashes(squeeze(replaced))
    IN  IF node_id = <<>> THEN "task" ELSE join(node_id)

(* An entry of the sprint list: a mapping with a name and a parallel_safe
   flag, or a value that is not a mapping. *)
Sprint(name, parallel_safe) ==
    [is_dict |-> TRUE, name |-> name, parallel_safe |-> parallel_safe]

NotADict == [is_dict |-> FALSE, name |-> <<>>, parallel_safe |-> FALSE]

(* str(sprint.get("name", "")).strip() or f"sprint-{idx + 1}", idx + 1
   being the position i of the entry in the list. *)
sprint_name(sprint, i) ==
    IF strip(sprint.name) = <<>>
    THEN <<"s", "p", "r", "i", "n", "t", "-", Str(i)>>
    ELSE strip(sprint.name)

(* A loop that gives every sprint its sanitized name as id. *)
unique_id_NoSuffix(base_id, suffix, used_ids) == base_id

(* The while loop of the first pass: the first of base_id, base_id-2,
   base_id-3, ... that is not in used_ids. *)
RECURSIVE unique_id(_, _, _)
unique_id(base_id, suffix, used_ids) ==
    LET node_id == IF suffix = 1 THEN base_id
                   ELSE base_id \o "-" \o Str(suffix)
    IN  IF node_id \in used_ids
        THEN unique_id(base_id, suffix + 1, used_ids)
        ELSE node_id

(* The first pass: one node per entry that is a mapping. *)
RECURSIVE sprint_nodes(_, _, _)
sprint_nodes(sprints, i, acc) ==
    IF i > Len(sprints) THEN acc
    ELSE IF ~sprints[i].is_dict THEN sprint_nodes(sprints, i + 1, acc)
    ELSE LET name == sprint_name(sprints[i], i)
             base_id == _sanitize_graph_node_id(name)
             node_id == unique_id(base_id, 1, Range(acc.ordered_node_ids))
             node == [GraphNode(node_id, "implementation", None)
                         EXCEPT !.name = join(name)]
         IN  sprint_nodes(
                 sprints, i + 1,
                 [nodes |-> Append(acc.nodes, node),
                  ordered_node_ids |-> Append(acc.ordered_node_ids, node_id),
                  parallel_flags |-> Append(acc.parallel_flags,
                                            sprints[i].parallel_safe)])

add_edge(edges, source, target) ==
    IF \E k \in 1..Len(edges) :
          edges[k].source = source /\ edges[k].target = target
    THEN edges
    ELSE Append(edges, Edge(source, target, ALWAYS))

RECURSIVE fan_in(_, _, _, _)
fan_in(edges, ids, parallel_indices, node_id) ==
    IF parallel_indices = <<>> THEN edges
    ELSE fan_in(add_edge(edges, ids[Head(parallel_indices)], node_id),
                ids, Tail(parallel_indices), node_id)

(* The second pass, k being idx + 1; previous_sequential_index is 0 for
   None. *)
RECURSIVE sprint_edges(_, _, _, _)
sprint_edges(ids, flags, k, acc) ==
    IF k > Len(flags) THEN acc
    ELSE LET node_id == ids[k]
             prev == acc.previous_sequential_index
         IN  IF flags[k]
             THEN sprint_edges(
                      ids, flags, k + 1,
                      IF prev # 0
                      THEN [acc EXCEPT
                               !.edges = add_edge(@, ids[prev], node_id),
                               !.pending_parallel_indices = Append(@, k)]
                      ELSE acc)
             ELSE sprint_edges(
                      ids, flags, k + 1,
                      [edges |->
                          IF prev = 0 THEN acc.edges
                          ELSE IF acc.pending_parallel_indices # <<>>
                          THEN fan_in(acc.edges, ids,
                                      acc.pending_parallel_indices, node_id)
                          ELSE add_edge(acc.edges, ids[prev], node_id),
                       previous_sequential_index |-> k,
                       pending_parallel_indices |->
                          IF prev = 0 THEN acc.pending_parallel_indices
                          ELSE <<>>])

(* A conversion that chains the sprints in the order of the list and
   ignores parallel_safe. *)
_sprints_to_graph_Chain(sprints) ==
    LET first == sprint_nodes(sprints, 1,
                              [nodes |-> <<>>, ordered_node_ids |-> <<>>,
                               parallel_flags |-> <<>>])
        ids == first.ordered_node_ids
    IN  [nodes |-> first.nodes,
         edges |-> [k \in 1..(Len(ids) - 1) |->
                       Edge(ids[k], ids[k + 1], ALWAYS)]]

_sprints_to_graph(sprints) ==
    LET first == sprint_nodes(sprints, 1,
                              [nodes |-> <<>>, ordered_node_ids |-> <<>>,
                               parallel_flags |-> <<>>])
        second == sprint_edges(first.ordered_node_ids, first.parallel_flags,
                               1, [edges |-> <<>>,
                                   previous_sequential_index |-> 0,
                                   pending_parallel_indices |-> <<>>])
    IN  [nodes |-> first.nodes, edges |-> second.edges]

(* The entries a planner writes: names that differ in case only, a name
   that is the suffixed form of another, a blank name, a name without a
   character of an id, and an entry that is not a mapping. *)
SprintEntries ==
    {Sprint(<<"x">>, ps) : ps \in BOOLEAN}
        \cup {Sprint(<<"X">>, ps) : ps \in BOOLEAN}
        \cup {Sprint(<<"x", "-", "2">>, FALSE),
              Sprint(<<Blank>>, TRUE),
              Sprint(<<"!">>, FALSE),
              NotADict}

SprintLists ==
    UNION {[1..n -> SprintEntries] : n \in 0..MaxSprints}

InitLegacy ==
    /\ plan \in SprintLists
    /\ graph = [nodes |-> <<>>, edges |-> <<>>]
    /\ files = [r \in RunDirs |-> NoFile]
    /\ tmps = [r \in RunDirs |-> NoFile]
    /\ dirs = {1}
    /\ run = 1
    /\ state = NoState
    /\ pc = "parse"
    /\ ret = ""
    /\ exit_code = 0
    /\ shutting_down = FALSE
    /\ cycle_count = 1
    /\ pm_error_retries = 0
    /\ sprint_history = <<>>
    /\ pl_results = <<>>
    /\ node_results = <<>>
    /\ ready_nodes = <<>>
    /\ idx = 0
    /\ op = Op("start", "")
    /\ dispatched = <<>>
    /\ restarts = 0
    /\ ops = 0
    /\ max_cycles = MaxCycles
    /\ pm_failures = <<>>
    /\ out = <<>>
    /\ worktrees = {}
    /\ repo = CleanRepo
    /\ locals = NoLocals

(* parse_signal on a next_task signal, validation of the graph and the
   construction of the manager on a run directory without checkpoint. *)
LegacyParse ==
    /\ pc = "parse"
    /\ graph' = _sprints_to_graph(plan)
    /\ state' = _new_checkpoint_state(1, IdGraph(graph'))
    /\ pc' = IF validate(IdGraph(graph')).valid THEN "traverse"
             ELSE "invalid"
    /\ op' = Op("open", "")
    /\ UNCHANGED <<files, ready_nodes, idx, dispatched, exit_code,
                   shutting_down, restarts, out>>
    /\ TypedRest

NextLegacy ==
    \/ LegacyParse
    \/ TypedTraverse
    \/ TypedDispatch

SpecLegacy == InitLegacy /\ [][NextLegacy]_vars

-----------------------------------------------------------------------------
(* parse_signal *)

(* An agent output is a sequence of pieces: the marker
   ---ORCHESTRATOR_SIGNAL---, a blank line, the lines "signal: done",
   "signal: next_task" and "note: x", and a block of RAW_LIMIT characters
   of prose without a colon. *)
SIGNAL_MARKER == "M"

DoneLine == "s"

NextTaskLine == "g"

NoteLine == "k"

Prose == "L"

Pieces == {SIGNAL_MARKER, Blank, DoneLine, NextTaskLine, NoteLine, Prose}

(* len() of a piece. *)
PieceLen(piece) ==
    CASE piece = SIGNAL_MARKER -> 25
      [] piece = Blank -> 1
      [] piece = DoneLine -> 13
      [] piece = NextTaskLine -> 18
      [] piece = NoteLine -> 8
      [] piece = Prose -> RAW_LIMIT

(* A slice of a text is a sequence of pieces, the first or the last of
   them cut to some of its characters. *)
Part(piece, chars) == [piece |-> piece, chars |-> chars]

RECURSIVE TextLen(_)
TextLen(text) ==
    IF text = <<>> THEN 0 ELSE Head(text).chars + TextLen(Tail(text))

Whole(text) == [i \in 1..Len(text) |-> Part(text[i], PieceLen(text[i]))]

(* text[-n:] *)
RECURSIVE LastChars(_, _)
LastChars(text, n) ==
    IF text = <<>> \/ n = 0 THEN <<>>
    ELSE LET last == text[Len(text)]
             front == SubSeq(text, 1, Len(text) - 1)
         IN  IF last.chars <= n
             THEN Append(LastChars(front, n - last.chars), last)
             ELSE <<Part(last.piece, n)>>

(* text[:n] *)
RECURSIVE FirstChars(_, _)
FirstChars(text, n) ==
    IF text = <<>> \/ n = 0 THEN <<>>
    ELSE IF Head(text).chars <= n
    THEN <<Head(text)>> \o FirstChars(Tail(text), n - Head(text).chars)
    ELSE <<Part(Head(text).piece, n)>>

(* output.split(SIGNAL_MARKER) *)
RECURSIVE split(_, _)
split(output, part) ==
    IF output = <<>> THEN <<part>>
    ELSE IF Head(output) = SIGNAL_MARKER
    THEN <<part>> \o split(Tail(output), <<>>)
    ELSE split(Tail(output), Append(part, Head(output)))

(* result[key] = value *)
Put(result, key, value) ==
    [x \in DOMAIN result \cup {key} |->
        IF x = key THEN value ELSE result[x]]

(* _parse_simple_yaml on lines without indentation: a key line sets its
   key, a later line of a key replacing an earlier one; blank lines and
   lines that do not match are skipped. *)
RECURSIVE _parse_simple_yaml(_, _)
_parse_simple_yaml(lines, result) ==
    IF lines = <<>> THEN result
    ELSE _parse_simple_yaml(
             Tail(lines),
             CASE Head(lines) = DoneLine -> Put(result, "signal", "done")
               [] Head(lines) = NextTaskLine
                      -> Put(result, "signal", "next_task")
               [] Head(lines) = NoteLine -> Put(result, "note", "x")
               [] OTHER -> result)

_signal_dict(error_type, details) ==
    [signal |-> "error", error_type |-> error_type, details |-> details]

(* parse_signal; raises tells whether the decoding inside the try block
   raises an exception. *)
parse_signal(output, raises) ==
    LET parts == split(output, <<>>)
        yaml_text == strip(parts[Len(parts) - 1])
        signal == _parse_simple_yaml(yaml_text, <<>>)
        signal_type == IF "signal" \in DOMAIN signal THEN signal["signal"]
                       ELSE ""
    IN  IF Len(parts) < 3
        THEN Put(_signal_dict("no_signal", "No markers"), "raw_tail",
                 IF TextLen(Whole(output)) > RAW_LIMIT
                 THEN LastChars(Whole(output), RAW_LIMIT)
                 ELSE Whole(output))
        ELSE IF yaml_text = <<>>
        THEN _signal_dict("empty_signal", "Signal markers found but empty")
        ELSE IF raises
        THEN Put(_signal_dict("parse_error", "Failed to parse signal YAML"),
                 "raw_signal", FirstChars(Whole(yaml_text), RAW_LIMIT))
        ELSE IF signal_type = "next_task"
        THEN Put(signal, "graph", _sprints_to_graph(<<>>))
        ELSE signal

Outputs == UNION {[1..n -> Pieces] : n \in 0..MaxOutput}

InitSignal ==
    /\ AtRest
    /\ plan \in Outputs
    /\ graph = [nodes |-> <<>>, edges |-> <<>>]
    /\ pc = "parse_signal"
    /\ state = NoState
    /\ out = NoState

(* One call of parse_signal on the output of an agent. *)
ParseSignal ==
    /\ pc = "parse_signal"
    /\ \E raises \in BOOLEAN :
          /\ out' = parse_signal(plan, raises)
          /\ op' = Op("parse_signal", IF raises THEN "raises" ELSE "")
    /\ pc' = "parsed"
    /\ UNCHANGED <<plan, graph, state>>
    /\ StaysAtRest

NextSignal == ParseSignal

SpecSignal == InitSignal /\ [][NextSignal]_vars

-----------------------------------------------------------------------------
(* The driver with a planner that changes its graph between cycles and a
   clock read at the resolution of the run directory names. *)

ResumeGraphs == {AltGraph, TailGraph, ChainGraph}

(* strftime('%Y%m%d-%H%M%S') of the time a run directory is named at: a
   later second than those of all run directories, or the second in which
   the newest of them was named. *)
Clock(ds) == {NewRunDir(ds)} \cup (IF ds = {} THEN {} ELSE {Max(ds)})

PlannerGraphNow == \E now \in Clock(dirs) : PlannerGraphAt(now)

(* The planner turns to another graph. *)
Replan ==
    /\ pc = "cycle"
    /\ cycle_count < max_cycles
    /\ plan' \in ResumeGraphs \ {plan}
    /\ op' = Op("replan", "")
    /\ UNCHANGED <<files, tmps, dirs, pc, ret, exit_code, shutting_down,
                   cycle_count, pm_error_retries, pm_failures, locals,
                   sprint_history, pl_results, node_results, graph, run,
                   state, ready_nodes, idx, dispatched, restarts, ops,
                   max_cycles, out, worktrees, repo>>

InitResume ==
    /\ files = [r \in RunDirs |-> NoFile]
    /\ tmps = [r \in RunDirs |-> NoFile]
    /\ dirs = {}
    /\ plan \in ResumeGraphs
    /\ pc = "cycle"
    /\ ret = ""
    /\ exit_code = 0
    /\ shutting_down = FALSE
    /\ cycle_count = 0
    /\ pm_error_retries = 0
    /\ sprint_history = <<>>
    /\ pl_results = <<>>
    /\ node_results = <<>>
    /\ graph = NoGraph
    /\ run = 0
    /\ state = NoState
    /\ ready_nodes = <<>>
    /\ idx = 0
    /\ op = Op("start", "")
    /\ dispatched = <<>>
    /\ restarts = 0
    /\ ops = 0
    /\ max_cycles = MaxCycles
    /\ pm_failures = <<>>
    /\ out = NoState
    /\ worktrees = {}
    /\ repo = CleanRepo
    /\ locals = NoLocals

NextResume ==
    \/ CycleStart
    \/ PlannerEnds
    \/ PlannerGraphNow
    \/ Traverse
    \/ Dispatch
    \/ HandlerReturns
    \/ Rename
    \/ Replan

SpecResume == InitResume /\ [][NextResume]_vars

-----------------------------------------------------------------------------
(* The handlers inside the traversal: SoftwareHandler.execute and
   ContentHandler.execute step by step, from the dispatch of a node to the
   recording of its outcome. *)

(* The attributes of the planned nodes: a and b are software nodes, c is
   a content node; the planner of TailGraph gave b no PRD path. *)
HandlerOf(n) == IF n = "c" THEN "content" ELSE "software"

PrdPath(n) == IF n = "b" /\ plan = TailGraph THEN Empty ELSE T("p")

(* What invoke_agent and parse_signal end in: an exception of one of the
   classes the handlers tell apart, or the signal of the agent (its type
   after strip and lower, as both readers of the payload take it). *)
AgentResults ==
    {"timeout", "runtime_error", "exception",
     "done", "skipped", "error", "unknown"}

(* The details an agent can put in its signal: none, a quoted blank, a
   text. *)
AgentDetails == {None, <<Blank>>, T("e")}

_signal_to_outcome_status(signal) ==
    CASE signal = "done" -> COMPLETED
      [] signal = "skipped" -> SKIPPED
      [] OTHER -> FAILED

(* f"Node '{node_id}' failed with signal '{signal_type}'" *)
DefaultError == T("d")

_signal_error(signal, details) ==
    IF _signal_to_outcome_status(signal) # FAILED THEN None
    ELSE IF ~Truthy(details) THEN DefaultError
    ELSE strip(details)

(* The NodeOutcome the handlers build from the last signal_payload. *)
SignalOutcome(signal, artifacts) ==
    NodeOutcome(_signal_to_outcome_status(signal), T("x"), artifacts,
                ModelHint,
                IF _signal_to_outcome_status(signal) = FAILED
                THEN T("e") ELSE None)

(* The local variables of execute.  signal, error_type and details are
   the keys of signal_payload; result is what invoke_agent ended in and
   branch_deleted what delete_branch returned, {} while it was not
   called. *)
Locals(kind, worktree_path, signal, outcome) ==
    [kind |-> kind, worktree_path |-> worktree_path, signal |-> signal,
     outcome |-> outcome, result |-> "", error_type |-> "",
     details |-> None, merge_success |-> {}, merge_details |-> None,
     branch_deleted |-> {}]

HandlerRest ==
    UNCHANGED <<files, tmps, dirs, plan, ret, exit_code, shutting_down,
                cycle_count, pm_error_retries, pm_failures, sprint_history,
                pl_results, node_results, graph, run, state, ready_nodes,
                idx, dispatched, restarts, ops, max_cycles, out>>

(* SoftwareHandler.execute up to the invocation of the agent: the PRD
   check and _create_worktree, which adds the worktree on the branch of
   the node and creates the branch when there is none. *)
SoftwareEnter ==
    /\ pc = "execute"
    /\ HandlerOf(ready_nodes[idx]) = "software"
    /\ LET n == ready_nodes[idx]
           failed == SignalOutcome("error", <<>>)
       IN  IF PrdPath(n) = Empty
           THEN /\ locals' = Locals("software", {}, "error", failed)
                /\ pc' = "return"
                /\ op' = Op("missing_prd", n)
                /\ UNCHANGED <<worktrees, repo>>
           ELSE \E created \in {"ok", "no_main", "add_failed", "raised"} :
                   /\ op' = Op("create_worktree", created)
                   /\ worktrees' =
                          CASE created = "ok" -> (worktrees \ {n}) \cup {n}
                            [] created = "add_failed" -> worktrees \ {n}
                            [] OTHER -> worktrees
                   /\ repo' = IF created = "ok"
                              THEN [repo EXCEPT !.branches = @ \cup {n}]
                              ELSE repo
                   /\ locals' =
                          Locals("software",
                                 IF created = "ok" THEN {n} ELSE {},
                                 IF created = "ok" THEN "" ELSE "error",
                                 IF created = "ok" THEN NoState ELSE failed)
                   /\ pc' = IF created = "ok" THEN "agent" ELSE "return"
    /\ HandlerRest

(* ContentHandler.execute up to the invocation of the agent. *)
ContentEnter ==
    /\ pc = "execute"
    /\ HandlerOf(ready_nodes[idx]) = "content"
    /\ locals' = Locals("content", {}, "", NoState)
    /\ pc' = "agent"
    /\ op' = Op("work_dir", ready_nodes[idx])
    /\ UNCHANGED <<worktrees, repo>>
    /\ HandlerRest

(* invoke_agent and parse_signal inside the try block of either handler.
   The agent of a software node works in the worktree: it may have
   committed to the branch of the node. *)
AgentReturns ==
    /\ pc = "agent"
    /\ \E result \in AgentResults, details \in AgentDetails,
          committed \in BOOLEAN :
          LET raised == result \in {"timeout", "runtime_error", "exception"}
              signal == IF raised THEN "error" ELSE result
          IN  /\ raised => details = T("e")
              /\ locals.kind = "content" => ~committed
              /\ locals' =
                     [locals EXCEPT
                         !.result = result,
                         !.signal = signal,
                         !.error_type =
                             CASE result = "timeout" -> "timeout"
                               [] result = "runtime_error"
                                      -> "invocation_failed"
                               [] result = "exception" -> "execution_failed"
                               [] result = "error" -> "agent_error"
                               [] OTHER -> "",
                         !.details = details]
              /\ repo' = IF committed
                         THEN [repo EXCEPT !.ahead = @ \cup {ready_nodes[idx]}]
                         ELSE repo
              /\ pc' = IF locals.kind = "content" THEN "artifacts"
                       ELSE IF signal = "done" THEN "merge" ELSE "finally"
              /\ op' = Op("invoke_agent", result)
    /\ UNCHANGED worktrees
    /\ HandlerRest

(* What the git commands of merge_branch can end in, for branch n in
   repository r:
     no_main        checkout_main fails
     unfinished     git merge refuses because MERGE_HEAD exists
     merge_error    phase A fails without a conflict
     conflict       phase A reports CONFLICT
     up_to_date     phase A finds nothing to merge; git commit has nothing
                    to commit
     committed      phase A is clean and phase B creates the merge commit
     commit_failed  phase A is clean and git commit fails (a hook rejects
                    the commit, no identity is configured)              *)
MergeEnds(r, n) ==
    IF r.merging # {} THEN {"no_main", "unfinished"}
    ELSE IF n \in r.ahead
    THEN {"no_main", "merge_error", "conflict", "committed", "commit_failed"}
    ELSE {"no_main", "merge_error", "up_to_date"}

(* _build_conflict_context: the conflicting files and what each side
   changed. *)
ConflictContext == T("k")

(* The error message of a merge that failed without a conflict. *)
MergeError == T("g")

(* A merge_branch that leaves the merge in place after a conflict. *)
merge_branch_NoAbort(r, n, end) ==
    CASE end = "no_main" ->
             [success |-> FALSE, details |-> MergeError, repo |-> r]
      [] end \in {"merge_error", "unfinished"} ->
             [success |-> FALSE, details |-> MergeError,
              repo |-> [r EXCEPT !.merging = {}]]
      [] end = "conflict" ->
             [success |-> FALSE, details |-> ConflictContext,
              repo |-> [r EXCEPT !.merging = {n}]]
      [] end = "up_to_date" ->
             [success |-> TRUE, details |-> Empty, repo |-> r]
      [] end = "committed" ->
             [success |-> TRUE, details |-> Empty,
              repo |-> [r EXCEPT !.main = @ \cup {n}, !.ahead = @ \ {n},
                                 !.merging = {}]]
      [] end = "commit_failed" ->
             [success |-> TRUE, details |-> Empty,
              repo |-> [r EXCEPT !.merging = {n}]]

(* merge_branch: the pair it returns and the repository it leaves.  Phase
   A merges without committing and is aborted on a conflict or any other
   failure; phase B commits, and whatever git commit answers the merge is
   reported as done. *)
merge_branch(r, n, end) ==
    CASE end = "no_main" ->
             [success |-> FALSE, details |-> MergeError, repo |-> r]
      [] end \in {"merge_error", "unfinished"} ->
             [success |-> FALSE, details |-> MergeError,
              repo |-> [r EXCEPT !.merging = {}]]
      [] end = "conflict" ->
             [success |-> FALSE, details |-> ConflictContext,
              repo |-> [r EXCEPT !.merging = {}]]
      [] end = "up_to_date" ->
             [success |-> TRUE, details |-> Empty, repo |-> r]
      [] end = "committed" ->
             [success |-> TRUE, details |-> Empty,
              repo |-> [r EXCEPT !.main = @ \cup {n}, !.ahead = @ \ {n},
                                 !.merging = {}]]
      [] end = "commit_failed" ->
             [success |-> TRUE, details |-> Empty,
              repo |-> [r EXCEPT !.merging = {n}]]

(* delete_branch: git branch -d deletes a branch that is fully merged and
   that no worktree has checked out. *)
delete_branch(r, wt, n) ==
    IF n \notin r.ahead /\ n \notin wt /\ n \in r.branches
    THEN [deleted |-> TRUE, repo |-> [r EXCEPT !.branches = @ \ {n}]]
    ELSE [deleted |-> FALSE, repo |-> r]

(* An else clause that deletes the branch whatever the merge did. *)
SoftwareMerge_AlwaysDelete ==
    /\ pc = "merge"
    /\ \E end \in MergeEnds(repo, ready_nodes[idx]) :
          LET n == ready_nodes[idx]
              m == merge_branch(repo, n, end)
              d == delete_branch(m.repo, worktrees, n)
          IN  /\ repo' = d.repo
              /\ locals' =
                     [locals EXCEPT
                         !.merge_success = {m.success},
                         !.merge_details = m.details,
                         !.branch_deleted = {d.deleted},
                         !.signal = IF m.success THEN @ ELSE "error",
                         !.error_type = IF m.success THEN @
                                        ELSE "merge_failed",
                         !.details = IF m.success THEN @
                                     ELSE IF Truthy(m.details) THEN m.details
                                     ELSE MergeError]
              /\ op' = Op("merge", end)
    /\ pc' = "finally"
    /\ UNCHANGED worktrees
    /\ HandlerRest

(* The else clause of SoftwareHandler.execute: the branch of a node that
   is done is merged into main; after a merge that succeeded the branch
   is deleted, after one that failed the payload becomes a merge_failed
   error. *)
SoftwareMerge ==
    /\ pc = "merge"
    /\ \E end \in MergeEnds(repo, ready_nodes[idx]) :
          LET n == ready_nodes[idx]
              m == merge_branch(repo, n, end)
              d == delete_branch(m.repo, worktrees, n)
          IN  /\ repo' = IF m.success THEN d.repo ELSE m.repo
              /\ locals' =
                     [locals EXCEPT
                         !.merge_success = {m.success},
                         !.merge_details = m.details,
                         !.branch_deleted = IF m.success THEN {d.deleted}
                                            ELSE {},
                         !.signal = IF m.success THEN @ ELSE "error",
                         !.error_type = IF m.success THEN @
                                        ELSE "merge_failed",
                         !.details = IF m.success THEN @
                                     ELSE IF Truthy(m.details) THEN m.details
                                     ELSE MergeError]
              /\ op' = Op("merge", end)
    /\ pc' = "finally"
    /\ UNCHANGED worktrees
    /\ HandlerRest

(* The outcome SoftwareHandler.execute returns after the finally clause. *)
SoftwareOutcome(l) ==
    [NodeOutcome(_signal_to_outcome_status(l.signal), T("x"), <<>>,
                 ModelHint,
                 IF l.merge_success = {FALSE} /\ Truthy(l.merge_details)
                 THEN l.merge_details
                 ELSE _signal_error(l.signal, l.details))
        EXCEPT !.merge_success = l.merge_success,
               !.merge_details = l.merge_details]

(* A finally clause that leaves the worktree behind. *)
SoftwareFinally_Keep ==
    /\ pc = "finally"
    /\ UNCHANGED <<worktrees, repo>>
    /\ locals' = [locals EXCEPT !.outcome = SoftwareOutcome(locals)]
    /\ pc' = "return"
    /\ op' = Op("remove_worktree", ready_nodes[idx])
    /\ HandlerRest

(* The finally clause of SoftwareHandler.execute and the construction of
   the outcome. *)
SoftwareFinally ==
    /\ pc = "finally"
    /\ worktrees' = worktrees \ locals.worktree_path
    /\ repo' = repo
    /\ locals' = [locals EXCEPT !.outcome = SoftwareOutcome(locals)]
    /\ pc' = "return"
    /\ op' = Op("remove_worktree", ready_nodes[idx])
    /\ HandlerRest

(* What _collect_content_artifacts finds after the agent ended: the
   output_path of the node and of its inputs, what is at the declared
   path (nothing, a file, a directory), whether that directory holds a
   file below it and whether tasks/<node-id>/ does. *)
ContentWorlds ==
    [output_path : {None, T("o")},
     inputs_output_path : {Empty, <<Blank>>, T("o")},
     target : {"absent", "file", "dir"},
     dir_files : BOOLEAN,
     work_files : BOOLEAN]

(* A collection that accepts an output without files. *)
_collect_content_artifacts_NoCheck(w) ==
    [artifacts |-> <<>>, artifact_error |-> None]

(* The artifact list, T("f") being the relative path of a file found,
   and the error text. *)
_collect_content_artifacts(w) ==
    LET output_path_text == IF Truthy(w.output_path) THEN w.output_path
                            ELSE strip(w.inputs_output_path)
        found == [artifacts |-> <<T("f")>>, artifact_error |-> None]
        nothing == [artifacts |-> <<>>, artifact_error |-> T("n")]
    IN  IF Truthy(output_path_text)
        THEN IF w.target = "absent" THEN nothing
             ELSE IF w.target = "file" THEN found
             ELSE IF ~w.dir_files THEN nothing
             ELSE found
        ELSE IF ~w.work_files THEN nothing
        ELSE found

(* The cases the traversal tells apart: a declared path with nothing or
   with a file at it, no declared path and tasks/<node-id>/ without or
   with a file. *)
HandlerWorlds ==
    {w \in ContentWorlds :
        /\ w.inputs_output_path = Empty
        /\ w.target # "dir" /\ ~w.dir_files
        /\ w.output_path = None => w.target = "absent"
        /\ w.output_path # None => w.work_files}

(* _collect_content_artifacts and the construction of the outcome. *)
ContentArtifacts ==
    /\ pc = "artifacts"
    /\ \E w \in HandlerWorlds :
          LET collected == _collect_content_artifacts(w)
              artifact_error == collected.artifact_error # None
          IN
          /\ locals' =
                 [locals EXCEPT
                     !.signal = IF artifact_error THEN "error" ELSE @,
                     !.outcome =
                         IF artifact_error
                         THEN SignalOutcome("error", collected.artifacts)
                         ELSE SignalOutcome(locals.signal,
                                            collected.artifacts)]
          /\ op' = Op("collect_artifacts",
                      IF artifact_error THEN "missing_output" ELSE "")
    /\ pc' = "return"
    /\ UNCHANGED <<worktrees, repo>>
    /\ HandlerRest

(* handler.execute returns to the traversal loop. *)
ExecuteReturns ==
    /\ pc = "return"
    /\ locals' = NoLocals
    /\ RecordOutcome(locals.outcome)

HandlerGraphs ==
    {ChainGraph, TailGraph, AltGraph,
     [nodes |-> <<"a", "b", "c">>, edges |-> <<>>]}

InitHandler ==
    /\ files = [r \in RunDirs |-> NoFile]
    /\ tmps = [r \in RunDirs |-> NoFile]
    /\ dirs = {}
    /\ plan \in HandlerGraphs
    /\ pc = "cycle"
    /\ ret = ""
    /\ exit_code = 0
    /\ shutting_down = FALSE
    /\ cycle_count = 0
    /\ pm_error_retries = 0
    /\ sprint_history = <<>>
    /\ pl_results = <<>>
    /\ node_results = <<>>
    /\ graph = NoGraph
    /\ run = 0
    /\ state = NoState
    /\ ready_nodes = <<>>
    /\ idx = 0
    /\ op = Op("start", "")
    /\ dispatched = <<>>
    /\ restarts = 0
    /\ ops = 0
    /\ max_cycles = MaxCycles
    /\ pm_failures = <<>>
    /\ out = NoState
    /\ worktrees = {}
    /\ repo = CleanRepo
    /\ locals = NoLocals

NextHandler ==
    \/ CycleStart
    \/ PlannerEnds
    \/ PlannerGraph
    \/ Traverse
    \/ Dispatch
    \/ Rename
    \/ SoftwareEnter
    \/ ContentEnter
    \/ AgentReturns
    \/ SoftwareMerge
    \/ SoftwareFinally
    \/ ContentArtifacts
    \/ ExecuteReturns
    \/ Sigint

SpecHandler == InitHandler /\ [][NextHandler]_vars

-----------------------------------------------------------------------------
(* ContentHandler.execute as one step, with what it finds on disk *)

InitContent ==
    /\ AtRest
    /\ plan = [nodes |-> <<"c">>, edges |-> <<>>]
    /\ graph = plan
    /\ pc = "execute"
    /\ state = NoState
    /\ out = NoState

(* ContentHandler.execute: the agent ends in a signal or in an exception,
   the artifacts are collected, a collection error replaces the signal
   payload, and the outcome is built from the payload. *)
ContentExecute ==
    /\ pc = "execute"
    /\ \E result \in AgentResults, w \in ContentWorlds :
          LET raised == result \in {"timeout", "runtime_error", "exception"}
              collected == _collect_content_artifacts(w)
              missing == collected.artifact_error # None
              signal == IF missing \/ raised THEN "error" ELSE result
              error_type ==
                  CASE missing -> "missing_output"
                    [] result = "timeout" -> "timeout"
                    [] result = "runtime_error" -> "invocation_failed"
                    [] result = "exception" -> "execution_failed"
                    [] result = "error" -> "agent_error"
                    [] OTHER -> ""
          IN  /\ out' = [world |-> w,
                         result |-> result,
                         signal_payload |-> [signal |-> signal,
                                             error_type |-> error_type],
                         outcome |-> SignalOutcome(signal,
                                                   collected.artifacts)]
              /\ op' = Op("execute", result)
    /\ pc' = "returned"
    /\ UNCHANGED <<plan, graph, state>>
    /\ StaysAtRest

NextContent == ContentExecute

SpecContent == InitContent /\ [][NextContent]_vars

-----------------------------------------------------------------------------
(* Views used by the properties *)

Open == state # NoState

Status(n) == state.nodes[n].status

Edges == Range(graph.edges)

(* The outcome recorded in the checkpoint for node n. *)
Recorded(n) ==
    NodeOutcome(state.nodes[n].status, state.nodes[n].output_summary,
                state.nodes[n].artifacts, state.nodes[n].model_used,
                state.nodes[n].error_details)

InProgressOnDisk(r) ==
    {n \in DOMAIN files[r].nodes : files[r].nodes[n].status = IN_PROGRESS}

(* The nodes reachable from the nodes of S over forward edges, S included. *)
RECURSIVE Reachable(_, _)
Reachable(g, S) ==
    LET step == S \cup {e.target : e \in {x \in Range(g.edges) : x.source \in S}}
    IN  IF step = S THEN S ELSE Reachable(g, step)

-----------------------------------------------------------------------------
(* C1: failure bypass.  In the graph {a -> b always, a -> c on status ==
   "fail"}, once a is recorded failed, b is never dispatched, and every ready
   set computed from then on holds c and not b until c has run. *)
C1_FailureBypass ==
    (Open /\ graph = BypassGraph /\ Status("a") = FAILED)
        => /\ Status("b") = PENDING
           /\ op.name # "pipeline_stuck"
           /\ (pc = "dispatch" /\ Status("c") = PENDING)
                  => ready_nodes = <<"c">>

(* C2: for every edge (u, v) of the graph under traversal, v is in the ready
   set or has been dispatched only if u's checkpoint status is terminal. *)
C2_ReadyOnlyAfterUpstreamTerminal ==
    Open =>
        \A e \in Edges :
            (e.target \in Range(ready_nodes) \/ Status(e.target) # PENDING)
                => _is_terminal_node_status(Status(e.source))

C2_Witness ==
    /\ Open
    /\ pc = "execute"
    /\ \E e \in Edges :
          /\ ready_nodes[idx] = e.target
          /\ Status(e.target) = IN_PROGRESS
          /\ Status(e.source) = SKIPPED

(* C3: a node has been dispatched only if every incoming edge's condition
   evaluates true against the outcome recorded for the edge's source. *)
C3_DispatchedOnlyOnTrueConditions ==
    Open =>
        \A e \in Edges :
            Status(e.target) # PENDING
                => evaluate_edge_condition(e, Recorded(e.source))

(* C4: a node that is completed in a checkpoint stays completed in it as long
   as the checkpoint is that of the same graph, a node is dispatched only
   from status pending, and opening a checkpoint of the same graph keeps the
   completed nodes completed and resets the in_progress ones to pending. *)
C4_ResumeKeepsCompleted ==
    [][/\ \A r \in RunDirs :
            (IsJson(files[r]) /\ IsJson(files'[r])
                /\ files'[r].graph_hash = files[r].graph_hash)
            => \A n \in DOMAIN files[r].nodes :
                  files[r].nodes[n].status = COMPLETED
                      => files'[r].nodes[n].status = COMPLETED
       /\ op'.name = "record_node_start" /\ pc = "dispatch"
            => Status(op'.arg) = PENDING
       /\ (op'.name = "open" /\ pc = "pm" /\ IsJson(files[run']))
            => \A n \in DOMAIN files[run'].nodes :
                  /\ files[run'].nodes[n].status = COMPLETED
                        => state'.nodes[n].status = COMPLETED
                  /\ files[run'].nodes[n].status = IN_PROGRESS
                        => state'.nodes[n].status = PENDING
      ]_vars

C4_Witness ==
    /\ restarts = 1
    /\ graph = ChainGraph
    /\ dirs = {run}
    /\ op.name = "open"
    /\ pc = "rename"
    /\ files[run].nodes["a"].status = COMPLETED
    /\ files[run].nodes["b"].status = IN_PROGRESS
    /\ Status("a") = COMPLETED
    /\ Status("b") = PENDING
    /\ Status("c") = PENDING

(* C5: when a manager is constructed on a checkpoint of the same graph hash,
   an entry that is in_progress in the file becomes a pending entry with
   every field cleared, every other entry of the file is the manager's entry
   with the same status and the same fields, and a graph node without entry
   is pending. *)
C5_OpenResetsOnlyInProgress ==
    [][(/\ op'.name = "open"
        /\ IsJson(files[run'])
        /\ files[run'].graph_hash = _compute_graph_hash(graph'))
       => \A n \in NodeSet(graph') \cup DOMAIN files[run'].nodes :
             state'.nodes[n] =
                 IF n \notin DOMAIN files[run'].nodes
                 THEN NodeCheckpoint(PENDING)
                 ELSE IF files[run'].nodes[n].status = IN_PROGRESS
                 THEN NodeCheckpoint(PENDING)
                 ELSE files[run'].nodes[n]
      ]_vars

(* C6: checkpoint.json never holds a partial payload, it changes only by the
   rename of the completely written temporary file, and whatever it holds
   after the process died is parsed by the next open. *)
C6_AtomicCheckpointWrite ==
    /\ [](\A r \in RunDirs :
            /\ files[r] # Partial
            /\ IsJson(files[r]) => _load_checkpoint(files[r]) # NoState)
    /\ [][\A r \in RunDirs :
            files'[r] # files[r]
                => /\ pc = "rename"
                   /\ r = run
                   /\ files'[r] = Payload(state)
         ]_vars

C6_Witness ==
    /\ pc \in {"crashed", "exited"}
    /\ \E r \in RunDirs :
          /\ tmps[r] = Partial
          /\ IsJson(files[r])
          /\ \E n \in DOMAIN files[r].nodes :
                files[r].nodes[n].status = IN_PROGRESS

(* C7: no checkpoint file ever holds more than one node with status
   in_progress. *)
C7_AtMostOneInProgressOnDisk ==
    \A r \in RunDirs :
        IsJson(files[r]) => Cardinality(InProgressOnDisk(r)) <= 1

C7_Witness ==
    /\ pc = "crashed"
    /\ \E r \in RunDirs :
          /\ IsJson(files[r])
          /\ Cardinality(InProgressOnDisk(r)) = 1
          /\ \E n \in DOMAIN files[r].nodes :
                _is_terminal_node_status(files[r].nodes[n].status)

(* C8: while the handler of a node runs, the node's in_progress record is in
   the checkpoint file; when the next node is about to be started or the next
   ready set is about to be computed, the file holds a terminal record for
   every node dispatched before and no in_progress record. *)
C8_RecordsPersistedInOrder ==
    /\ pc = "execute"
          => /\ IsJson(files[run])
             /\ files[run].nodes[ready_nodes[idx]].status = IN_PROGRESS
    /\ (pc \in {"dispatch", "traverse"} /\ idx > 1)
          => /\ IsJson(files[run])
             /\ InProgressOnDisk(run) = {}
             /\ \A i \in 1..(idx - 1) :
                   _is_terminal_node_status(
                       files[run].nodes[ready_nodes[i]].status)

C8_Witness ==
    /\ pc = "dispatch"
    /\ idx = 2
    /\ files[run].nodes[ready_nodes[1]].status = FAILED
    /\ files[run].nodes[ready_nodes[2]].status = PENDING

(* C9: when the planner is invoked after a traversal in the same process,
   every node of the traversed graph is terminal in the checkpoint, in memory
   and in the file. *)
C9_PlannerSeesTerminalNodes ==
    (pc = "pm" /\ Open)
        => /\ IsJson(files[run])
           /\ \A n \in NodeSet(graph) :
                 /\ _is_terminal_node_status(Status(n))
                 /\ _is_terminal_node_status(files[run].nodes[n].status)

C9_Witness ==
    /\ pc = "pm"
    /\ Open
    /\ cycle_count = 2
    /\ \E n \in NodeSet(graph) : Status(n) = FAILED

(* C10: invalidate_nodes on one node of the graph leaves every node that is
   reachable from it over forward edges, itself included, pending with every
   field cleared, leaves the entry of every other node as it was, and writes
   that state. *)
C10_InvalidateClosure ==
    [][(op'.name = "invalidate_nodes" /\ op'.arg \in NodeSet(graph))
       => /\ DOMAIN state'.nodes = DOMAIN state.nodes
          /\ \A n \in DOMAIN state.nodes :
                state'.nodes[n] =
                    IF n \in Reachable(graph, {op'.arg})
                    THEN NodeCheckpoint(PENDING)
                    ELSE state.nodes[n]
          /\ tmps'[run].nodes = state'.nodes
      ]_vars

C10_Witness ==
    /\ pc = "rename"
    /\ op = Op("invalidate_nodes", "b")
    /\ graph = ChainGraph
    /\ IsJson(files[run])
    /\ files[run].nodes["a"].status = COMPLETED
    /\ files[run].nodes["c"].status = COMPLETED
    /\ state.nodes["a"] = files[run].nodes["a"]
    /\ state.nodes["b"] = NodeCheckpoint(PENDING)
    /\ state.nodes["c"] = NodeCheckpoint(PENDING)

(* C11: while a manager is open on a graph, the node ids of its state are
   the node ids of the graph, and so are the node ids of every payload it
   writes and of the file once the write has completed. *)
C11_NodeIdsAreTheGraphs ==
    (Open /\ pc \in {"idle", "rename"})
        => /\ DOMAIN state.nodes = NodeSet(graph)
           /\ pc = "rename" => DOMAIN tmps[run].nodes = NodeSet(graph)
           /\ op.name = "rename" => DOMAIN files[run].nodes = NodeSet(graph)

C11_Witness ==
    /\ pc = "idle"
    /\ op.name = "rename"
    /\ restarts = 1
    /\ graph = AltGraph
    /\ ops = MaxOps
    /\ DOMAIN files[run].nodes = {"a"}
    /\ files[run].nodes["a"].status = FAILED

(* Positions of a node in a sequence of nodes *)
Positions(seq, n) == {i \in 1..Len(seq) : seq[i] = n}

AllAlways(g) == \A e \in Range(g.edges) : e.condition = ALWAYS

(* C12: for a valid graph whose edges all carry the condition always, in the
   process that starts from a fresh checkpoint and as long as every handler
   has returned completed: the graph is not rejected and the pipeline is not
   reported stuck, no node is dispatched twice, a node is dispatched after
   the sources of its incoming edges, and when the traversal ends every node
   has been dispatched and is completed. *)
C12_AlwaysGraphRunsEveryNodeOnce ==
    (restarts = 0 /\ validate(plan).valid /\ AllAlways(plan))
        => /\ op.name \notin {"invalid_graph", "pipeline_stuck"}
           /\ (Open /\ \A n \in NodeSet(graph) :
                         Status(n) \in {PENDING, IN_PROGRESS, COMPLETED})
                 => /\ \A n \in NodeSet(graph) :
                          Cardinality(Positions(dispatched, n)) <= 1
                    /\ \A e \in Edges :
                          \A j \in Positions(dispatched, e.target) :
                              \E i \in Positions(dispatched, e.source) : i < j
                    /\ op.name = "traversal_done"
                          => \A n \in NodeSet(graph) :
                                /\ Cardinality(Positions(dispatched, n)) = 1
                                /\ Status(n) = COMPLETED

C12_Witness ==
    /\ restarts = 0
    /\ op.name = "traversal_done"
    /\ graph = ChainGraph
    /\ dispatched = <<"a", "b", "c">>
    /\ \A n \in NodeIds : Status(n) = COMPLETED

(* The ids an edge of g names that are no node of g. *)
UnknownIds(g) ==
    {x \in {e.source : e \in Range(g.edges)} \cup {e.target : e \in Range(g.edges)} :
        x \notin NodeSet(g)}

(* The edges of g between nodes of g. *)
KnownPart(g) ==
    [nodes |-> g.nodes,
     edges |-> SelectSeq(g.edges, LAMBDA e : /\ e.source \in NodeSet(g)
                                              /\ e.target \in NodeSet(g))]

(* Some endpoint reaches itself along one or more edges of g. *)
EdgeCycle(g) ==
    \E n \in ValEndpoints :
        n \in Reachable(g, {e.target : e \in {x \in Range(g.edges) : x.source = n}})

(* Some node of g reaches itself along edges of g between nodes of g. *)
HasCycle(g) == EdgeCycle(KnownPart(g))

(* p is a closed walk of g: it ends where it starts and each step is an
   edge. *)
IsCyclePath(g, p) ==
    /\ Len(p) >= 2
    /\ p[1] = p[Len(p)]
    /\ \A i \in 1..(Len(p) - 1) :
          \E e \in Range(g.edges) : e.source = p[i] /\ e.target = p[i + 1]

(* C13 as stated: validate answers valid, with no errors, exactly when
   every edge endpoint is a node of the graph and the edge set is acyclic;
   every unknown endpoint id is reported exactly once; and every graph
   whose edge set contains a cycle gets a 'Cycle detected' error. *)
C13_AsStated ==
    pc = "validated"
        => /\ out.valid <=> (UnknownIds(plan) = {} /\ ~EdgeCycle(plan))
           /\ out.valid <=> out.errors = <<>>
           /\ \A x \in UnknownIds(plan) :
                 Cardinality({i \in 1..Len(out.errors) :
                                 out.errors[i] = UnknownNodeError(x)}) = 1
           /\ EdgeCycle(plan)
                 => \E i \in 1..Len(out.errors) : out.errors[i].kind = "cycle"

(* C13: validate answers valid, with no errors, exactly when every edge
   endpoint is a node of the graph and the edges (self-loops and repeated
   edges included) have no cycle; every unknown endpoint id is reported
   exactly once; and a graph with a cycle along edges between its nodes
   gets exactly one error that names a path v0 -> ... -> v0 along edges of
   the graph, a graph without such a cycle none. *)
C13_ValidateReportsUnknownAndCycles ==
    pc = "validated"
        => /\ out.valid <=> (UnknownIds(plan) = {} /\ ~HasCycle(plan))
           /\ out.valid <=> out.errors = <<>>
           /\ out.valid = validate(plan).valid
           /\ \A x \in ValEndpoints :
                 Cardinality({i \in 1..Len(out.errors) :
                                 out.errors[i] = UnknownNodeError(x)})
                     = IF x \in UnknownIds(plan) THEN 1 ELSE 0
           /\ Cardinality({i \in 1..Len(out.errors) :
                              /\ out.errors[i].kind = "cycle"
                              /\ IsCyclePath(KnownPart(plan),
                                             out.errors[i].path)})
                 = IF HasCycle(plan) THEN 1 ELSE 0
           /\ \A i \in 1..Len(out.errors) :
                 out.errors[i].kind = "cycle" => HasCycle(plan)

C13_Witness ==
    /\ pc = "validated"
    /\ plan.edges = <<Edge("a", "b", ALWAYS), Edge("b", "c", ALWAYS),
                      Edge("c", "a", ALWAYS)>>
    /\ out.errors = <<CycleError(<<"b", "c", "a", "b">>)>>


(* The nodes of g that have no terminal status in checkpoint state st. *)
NonTerminal(st, g) ==
    {n \in NodeSet(g) : ~_is_terminal_node_status(st.nodes[n].status)}

(* The ready set the loop head computes from checkpoint state st. *)
ReadyIn(st, g) ==
    get_ready_nodes(g, _status_map_for_ready_nodes(get_status_map(st)))

(* C14: a pass of the traversal loop ends the cycle's traversal when every
   node is terminal, returns 1 as 'pipeline stuck' when a node is not
   terminal and the ready set is empty, and otherwise takes a non-empty set
   of pending nodes each of which its handler's return makes terminal, so
   that the number of non-terminal nodes falls with every recorded
   completion; it never reports a stuck pipeline while a node is ready. *)
C14_TraversalPass ==
    [][/\ (pc = "traverse" /\ pc' \notin {"traverse", "crashed"}
               /\ op'.name \notin {"shutdown", "forced_shutdown"})
          => \/ /\ op'.name = "traversal_done"
                /\ NonTerminal(state, graph) = {}
                /\ pc' = "cycle"
             \/ /\ op'.name = "pipeline_stuck"
                /\ NonTerminal(state, graph) # {}
                /\ ReadyIn(state, graph) = <<>>
                /\ pc' = "exited" /\ exit_code' = 1
             \/ /\ op'.name = "ready_set"
                /\ NonTerminal(state, graph) # {}
                /\ ready_nodes' = ReadyIn(state, graph)
                /\ ready_nodes' # <<>>
                /\ \A n \in Range(ready_nodes') : Status(n) = PENDING
                /\ pc' = "dispatch" /\ idx' = 1
       /\ op'.name = "pipeline_stuck" => ReadyIn(state, graph) = <<>>
       /\ (pc = "dispatch" /\ op'.name = "record_node_start")
          => /\ Status(ready_nodes[idx]) = PENDING
             /\ pc' = "rename" /\ ret' = "execute"
       /\ (pc = "execute" /\ op'.name = "record_node_completion")
          => /\ ready_nodes[idx] \in NonTerminal(state, graph)
             /\ NonTerminal(state', graph) =
                    NonTerminal(state, graph) \ {ready_nodes[idx]}
             /\ idx' = idx + 1
             /\ ret' = IF idx = Len(ready_nodes) THEN "traverse"
                       ELSE "dispatch"]_vars

C14_Witness ==
    /\ pc = "traverse"
    /\ graph = ChainGraph
    /\ ready_nodes = <<"c">>
    /\ idx = 2
    /\ dispatched = <<"a", "b", "c">>
    /\ Status("b") = FAILED
    /\ NonTerminal(state, graph) = {}
    /\ restarts = 0

(* C15: the cycle counter never exceeds max_cycles; every invocation of the
   planner, a retry included, follows an increment of the counter by one;
   at the loop head with the counter at max_cycles the driver ends with
   exit code 1; and every run in which the agents return ends. *)
C15_CyclesBoundTheRun ==
    /\ [](cycle_count <= max_cycles)
    /\ [][/\ (pc # "pm" /\ pc' = "pm")
             => /\ pc = "cycle"
                /\ cycle_count < max_cycles
                /\ cycle_count' = cycle_count + 1
          /\ (cycle_count' # cycle_count /\ pc' # "exited")
             => /\ pc' = "pm"
                /\ op'.name = "invoke_pm"
          /\ (pc = "cycle" /\ cycle_count >= max_cycles /\ pc' # "cycle")
             => /\ pc' = "exited"
                /\ exit_code' = 1]_vars
    /\ <>(pc = "exited")

C15_Witness ==
    /\ pc = "exited"
    /\ op.name = "max_cycles"
    /\ exit_code = 1
    /\ max_cycles = 3
    /\ plan = ChainGraph
    /\ files[1] # NoFile

(* C16 as stated: each kind of planner failure has its own retry, so the
   driver halts on a planner failure only when the failure that used the
   retry was of the same kind. *)
C16_AsStated ==
    (pc = "exited" /\ op.name \in FailureKinds) => op.arg = op.name

(* C16: the driver keeps one retry for planner failures of all kinds
   together, given back when a graph is accepted: the first planner failure
   since the start or the last accepted graph is retried whatever its kind,
   and the next one, whatever its kind, halts the driver with exit 1. *)
C16_SharedRetryBudget ==
    /\ [](/\ Len(pm_failures) = pm_error_retries
          /\ pm_error_retries <= PM_ERROR_MAX_RETRIES)
    /\ [][/\ (pc = "pm" /\ op'.name \in FailureKinds)
             => IF pm_failures = <<>>
                THEN /\ pc' = "cycle"
                     /\ pm_failures' = <<op'.name>>
                ELSE /\ pc' = "exited"
                     /\ exit_code' = 1
                     /\ op'.arg = pm_failures[1]
          /\ (pc = "pm" /\ op'.name = "open") => pm_failures' = <<>>
          /\ (pm_failures' # pm_failures /\ pm_failures' # <<>>)
             => (pc = "pm" /\ op'.name \in FailureKinds)]_vars

C16_Witness ==
    /\ pc = "exited"
    /\ exit_code = 1
    /\ op = Op("invalid_graph", "timeout")
    /\ plan.edges = <<Edge("a", "z", ALWAYS)>>
    /\ max_cycles = 3

(* C17: the driver aborts as stuck exactly when the planner has emitted the
   same node name in three consecutive cycles.  When a planned graph is
   taken in, the names of the planned graph have been emitted in every
   cycle so far if the history holds one copy of them for each earlier
   cycle; from the third such cycle on the driver must abort as stuck, and
   it may abort as stuck only after a name has been emitted three times. *)
C17_StuckLoopAbort ==
    [][(pc = "pm" /\ op'.name \in {"open", "stuck_loop", "invalid_graph"})
          => LET names == Len(plan.nodes)
                 in_every_cycle ==
                     Len(sprint_history) = (cycle_count - 1) * names
             IN  /\ (cycle_count >= STUCK_THRESHOLD /\ in_every_cycle)
                       => op'.name = "stuck_loop"
                 /\ op'.name = "stuck_loop"
                       => /\ exit_code' = 1
                          /\ Len(sprint_history) + names
                                 >= STUCK_THRESHOLD * names]_vars

(* C18: a driver that has ended has exit code 0 only if the planner
   signaled complete, and exit code 1 after every other ending: planner
   blocked, retry budget exhausted, stuck loop, pipeline stuck, maximum
   cycles, interrupt. *)
C18_ExitCodes ==
    pc = "exited"
        => /\ exit_code \in {0, 1}
           /\ exit_code = 0 <=> op.name = "complete"

(* r is a result entry that tells the planner that node n failed. *)
IsErrorResult(r, n) == r.graph_node_id = n /\ r.signal = "error"

(* C19: an error inside a handler never ends the orchestrator.  Whatever
   the agent, the worktree, the merge or the artifacts do, the handler
   goes on to return an outcome; an outcome after an error is failed; the
   driver records it as failed with an error result for the planner and
   goes on with the next ready node or the next pass; and the planner of
   the next cycle is invoked with the error results of the failed nodes. *)
C19_HandlerErrorsAreOutcomes ==
    /\ [][/\ (pc \in {"execute"} \cup HandlerPcs
                 /\ op'.name \notin {"sigint", "forced_shutdown"})
             => /\ pc' \in HandlerPcs \cup {"rename"}
                /\ exit_code' = exit_code
          /\ (pc = "return" /\ pc' = "rename")
             => LET n == ready_nodes[idx]
                IN  /\ locals.outcome.status
                           \in {COMPLETED, FAILED, SKIPPED}
                    /\ locals.signal \notin {"done", "skipped"}
                           => locals.outcome.status = FAILED
                    /\ state'.nodes[n].status = locals.outcome.status
                    /\ locals.outcome.status = FAILED
                           => /\ state'.nodes[n].error_details # None
                              /\ Len(node_results') = Len(node_results) + 1
                              /\ \A i \in 1..Len(node_results) :
                                     node_results'[i] = node_results[i]
                              /\ IsErrorResult(
                                     node_results'[Len(node_results')], n)
                    /\ ret' = IF idx < Len(ready_nodes) THEN "dispatch"
                              ELSE "traverse"
                    /\ idx' = idx + 1]_vars
    /\ []((pc \in {"cycle", "pm"} /\ cycle_count = 1
              /\ op.name \in {"traversal_done", "invoke_pm"})
            => \A n \in NodeSet(graph) :
                  Status(n) = FAILED
                      => \E i \in 1..Len(pl_results) :
                            IsErrorResult(pl_results[i], n))

C19_Witness ==
    /\ pc = "pm"
    /\ cycle_count = 2
    /\ graph = ChainGraph
    /\ dispatched = <<"a", "b", "c">>
    /\ Len(pl_results) = 3
    /\ IsErrorResult(pl_results[1], "a")
    /\ IsErrorResult(pl_results[2], "b")
    /\ IsErrorResult(pl_results[3], "c")

(* C20: a worktree exists only while the handler of its node executes: it
   is there when the agent of a software node is invoked, it belongs to the
   node being executed, and it is gone when execute returns or the process
   exits; a node without a PRD path, or a project where main cannot be
   checked out, gets no worktree and a failed outcome. *)
C20_WorktreeOnlyDuringExecute ==
    /\ [](/\ worktrees # {}
             => /\ pc \in {"agent", "merge", "finally"}
                /\ locals.kind = "software"
                /\ worktrees = {ready_nodes[idx]}
                /\ locals.worktree_path = worktrees
          /\ (pc \in {"agent", "merge", "finally"} /\ locals.kind = "software")
             => worktrees = {ready_nodes[idx]}
          /\ pc \in {"execute", "return", "rename", "exited"}
             => worktrees = {})
    /\ [][/\ (op'.name = "missing_prd"
                 \/ (op'.name = "create_worktree" /\ op'.arg = "no_main"))
             => /\ worktrees' = {}
                /\ pc' = "return"
                /\ locals'.outcome.status = FAILED
          /\ worktrees' # worktrees
             => \/ pc = "execute" /\ op' = Op("create_worktree", "ok")
                \/ pc = "finally" /\ op'.name = "remove_worktree"
                \/ op'.name = "forced_shutdown"]_vars

C20_Witness ==
    /\ pc = "return"
    /\ op = Op("remove_worktree", "a")
    /\ worktrees = {}
    /\ locals.worktree_path = {"a"}
    /\ locals.outcome.status = FAILED

(* C21: SoftwareHandler.execute merges only after a done signal of the
   agent.  Its outcome is completed exactly when the agent signalled done
   and merge_branch reported success, and then delete_branch was called;
   after a skipped signal it is skipped and nothing was merged; in every
   other case, a done signal with a failed merge included, it is failed,
   error_details is not None, delete_branch was not called and the
   branches of the repository are those from before the merge. *)
C21_MergeOnlyWhenDone ==
    /\ []((pc = "return" /\ locals.kind = "software")
            => LET o == locals.outcome
               IN  /\ locals.merge_success # {} => locals.result = "done"
                   /\ o.status = COMPLETED
                          <=> (locals.result = "done"
                                   /\ locals.merge_success = {TRUE})
                   /\ o.status = COMPLETED => locals.branch_deleted # {}
                   /\ locals.result = "skipped"
                          => o.status = SKIPPED /\ locals.merge_success = {}
                   /\ o.status \notin {COMPLETED, SKIPPED}
                          => /\ o.status = FAILED
                             /\ o.error_details # None
                             /\ locals.branch_deleted = {})
    /\ [][/\ (repo'.main # repo.main \/ repo'.merging # repo.merging)
             => pc = "merge" /\ locals.signal = "done"
          /\ (pc = "merge" /\ pc' = "finally"
                 /\ locals'.merge_success = {FALSE})
             => repo'.branches = repo.branches]_vars

C21_Witness ==
    /\ pc = "return"
    /\ locals.kind = "software"
    /\ locals.result = "done"
    /\ locals.merge_success = {FALSE}
    /\ locals.outcome.status = FAILED
    /\ locals.outcome.error_details = MergeError
    /\ "a" \in repo.main
    /\ ready_nodes[idx] = "b"

(* C22: when phase A of the merge of a node's branch reports a conflict,
   the merge is aborted (no merge is in progress afterwards), mainline
   gets no commit, the branch is kept and delete_branch is not called;
   the outcome of the node is failed and its error details, in the outcome
   and in the checkpoint, are the conflict context; and a branch that was
   merged into mainline stays merged whatever happens later. *)
C22_ConflictAbortsAndKeepsBranch ==
    /\ [][/\ (pc = "merge" /\ op' = Op("merge", "conflict"))
             => /\ repo'.merging = {}
                /\ repo'.main = repo.main
                /\ ready_nodes[idx] \in repo'.branches
                /\ locals'.branch_deleted = {}
                /\ locals'.merge_success = {FALSE}
                /\ locals'.merge_details = ConflictContext
          /\ (pc = "return" /\ pc' = "rename"
                 /\ locals.merge_details = ConflictContext)
             => /\ state'.nodes[ready_nodes[idx]].status = FAILED
                /\ state'.nodes[ready_nodes[idx]].error_details
                       = ConflictContext
          /\ repo.main \subseteq repo'.main]_vars
    /\ []((pc = "return" /\ locals.kind = "software"
              /\ locals.merge_details = ConflictContext)
            => /\ locals.outcome.status = FAILED
               /\ locals.outcome.error_details = ConflictContext
               /\ ready_nodes[idx] \in repo.branches
               /\ ready_nodes[idx] \notin repo.main)

C22_Witness ==
    /\ pc = "traverse"
    /\ graph = ChainGraph
    /\ Status("a") = COMPLETED
    /\ Status("b") = FAILED
    /\ state.nodes["b"].error_details = ConflictContext
    /\ repo.main = {"a"}
    /\ repo.merging = {}
    /\ "b" \in repo.branches

(* C23: merge_branch is atomic.  When it reports failure no merge is in
   progress and mainline has no new commit; when it reports success no
   merge is in progress and either the merge commit of the branch is on
   mainline or the branch had nothing that mainline lacked. *)
C23_MergeIsAtomic ==
    [][(pc = "merge" /\ pc' = "finally")
          => LET n == ready_nodes[idx]
             IN  IF locals'.merge_success = {FALSE}
                 THEN /\ repo'.merging = {}
                      /\ repo'.main = repo.main
                 ELSE /\ repo'.merging = {}
                      /\ n \in repo'.main \/ n \notin repo.ahead]_vars

(* C24: in the context the planner is invoked with, a software node whose
   merge ended in a conflict appears as an error with error type
   merge_failed and with the conflict context. *)
C24_ConflictReachesPlanner ==
    pc = "pm"
        => \A i \in 1..Len(pl_results) :
              (pl_results[i].merge_success = {FALSE}
                  /\ pl_results[i].merge_details = ConflictContext)
                 => LET lines == build_pm_context(pl_results)[i]
                    IN  /\ lines.Signal = "error"
                        /\ lines.Error_type = "merge_failed"
                        /\ lines.Details = ConflictContext

(* C25: the first interrupt sets the shutdown flag and nothing else.  With
   the flag set no planner is invoked and no node is dispatched any more:
   the handler that executes returns, its outcome is recorded and the
   checkpoint file is replaced, and the check at the head of the cycle
   loop, of the traversal loop or of the dispatch loop ends the process,
   with every node it dispatched terminal in the checkpoint file.  A
   second interrupt ends the process at once.  An interrupted run
   ends. *)
C25_GracefulShutdown ==
    /\ [][/\ (op'.name = "sigint")
             => /\ ~shutting_down /\ shutting_down'
                /\ pc' = pc /\ exit_code' = exit_code
                /\ state' = state /\ files' = files /\ tmps' = tmps
                /\ idx' = idx /\ cycle_count' = cycle_count
          /\ shutting_down
             => op'.name \notin {"invoke_pm", "record_node_start"}
          /\ (shutting_down /\ pc = "execute"
                 /\ op'.name # "forced_shutdown")
             => /\ op' = Op("record_node_completion", ready_nodes[idx])
                /\ pc' = "rename"
                /\ _is_terminal_node_status(
                       tmps'[run].nodes[ready_nodes[idx]].status)
          /\ (shutting_down /\ pc = "rename"
                 /\ op'.name # "forced_shutdown")
             => files'[run] = tmps[run] /\ pc' = ret
          /\ (shutting_down /\ pc \in {"cycle", "traverse", "dispatch"}
                 /\ op'.name # "forced_shutdown")
             => /\ pc' = "exited"
                /\ op'.name \in {"shutdown", "max_cycles"}
          /\ (op'.name = "shutdown")
             => /\ shutting_down
                /\ Open => tmps[run] = NoFile
                /\ dispatched # <<>>
                       => /\ files[run] = Payload(state)
                          /\ \A n \in Range(dispatched) :
                                _is_terminal_node_status(
                                    files[run].nodes[n].status)
          /\ (op'.name = "forced_shutdown")
             => shutting_down /\ pc' = "exited" /\ exit_code' = 1]_vars
    /\ (shutting_down ~> pc = "exited")

C25_Witness ==
    /\ pc = "exited"
    /\ op.name = "shutdown"
    /\ plan = ChainGraph
    /\ files[1] # NoFile
    /\ files[1].nodes["a"].status = FAILED
    /\ files[1].nodes["b"].status = COMPLETED
    /\ files[1].nodes["c"].status = PENDING

(* C26: when the planned graph matches the checkpoint of no run
   directory, the driver opens a run directory that did not exist, with a
   run id of its own and every node pending; and no checkpoint.json that
   holds the state of another graph is changed by any later write. *)
C26_MismatchStartsFreshRun ==
    [][/\ (pc = "pm" /\ op'.name = "open"
              /\ _find_resumable_run_dir(files, dirs,
                                         _compute_graph_hash(graph')) = 0)
          => /\ run' \notin dirs
             /\ \A r \in dirs : IsJson(files[r])
                                   => files[r].run_id # state'.run_id
             /\ \A n \in NodeSet(graph') : state'.nodes[n].status = PENDING
       /\ \A r \in dirs :
             (IsJson(files[r]) /\ files'[r] # files[r] /\ Open)
                => files[r].graph_hash = state.graph_hash]_vars

(* The nodes of g by id, the edges of g with their number of occurrences. *)
NodeById(g) ==
    [id \in {g.nodes[i].id : i \in 1..Len(g.nodes)} |->
        CHOOSE n \in Range(g.nodes) : n.id = id]

EdgeCount(g) ==
    [e \in Range(g.edges) |->
        Cardinality({i \in 1..Len(g.edges) : g.edges[i] = e})]

(* C27: graphs that differ only in the order in which nodes and edges are
   declared have the same hash, and the second resumes in the run
   directory of the first; graphs that differ in the domain, in a field of
   a node or in the edges (which edges, how many times) have different
   canonical forms, and so no run directory is found. *)
C27_HashStability ==
    pc = "hashed"
        => LET same == /\ plan.domain = graph.domain
                       /\ NodeById(plan) = NodeById(graph)
                       /\ EdgeCount(plan) = EdgeCount(graph)
           IN  /\ same => out.h1 = out.h2 /\ out.found = 1
               /\ ~same => out.h1 # out.h2 /\ out.found = 0

C27_Witness ==
    /\ pc = "hashed"
    /\ plan.nodes # graph.nodes
    /\ plan.edges # graph.edges
    /\ Len(plan.edges) = 2
    /\ out.h1 = out.h2
    /\ out.found = 1

(* C28: once a save has completed (the file holds the payload of the
   state in memory), loading the file gives a state equal to the one in
   memory: the same run_id, graph_hash, timestamps and gate_retries, and
   for every node the same status, started_at, completed_at,
   output_summary, model_used, artifacts and error_details. *)
C28_CheckpointRoundTrip ==
    (state # NoState /\ files[run] = Payload(state))
        => _load_checkpoint(files[run]) = state

(* Whether the completion of a discovery node upstream of n calls for the
   promotion of n, by the graph of the planner and the checkpoint. *)
CompletedDiscoveries(n) ==
    {d \in Range(IdGraph(plan).nodes) :
        /\ NodeOf(plan, d).type = DISCOVERY
        /\ n \in _collect_downstream_nodes(IdGraph(plan), d)
        /\ state.nodes[d].status = COMPLETED}

Promotable(n) ==
    /\ CompletedDiscoveries(n) # {}
    /\ NodeOf(plan, n).node_class = "planning"
    /\ NodeOf(plan, n).context_fidelity = MINIMAL

(* C29: a planning node at minimal downstream of a discovery node that
   completed gets a context at partial fidelity that includes the
   CONTEXT.md of that discovery node; every other node gets a context at
   the fidelity the planner declared, and its fidelity in the graph stays
   as declared. *)
C29_DiscoveryPromotion ==
    /\ \A i \in 1..Len(out) :
          LET n == out[i].node
          IN  IF Promotable(n)
              THEN /\ out[i].context.fidelity = "partial"
                   /\ CompletedDiscoveries(n)
                          \subseteq out[i].context.discovery_contents
              ELSE out[i].context.fidelity
                       = NodeOf(plan, n).context_fidelity.value
    /\ \A n \in Range(IdGraph(plan).nodes) :
          ~Promotable(n)
              => NodeOf(graph, n).context_fidelity
                     = NodeOf(plan, n).context_fidelity

(* C30: the ready nodes of one pass are dispatched one at a time in
   ascending order of their ids, whatever the order in which the planner
   declared the nodes: the ready set is in ascending order, the for loop
   is at one of its nodes, and the nodes dispatched in this pass are the
   ones before that position. *)
C30_DeterministicOrder ==
    pc = "dispatch"
        => /\ idx \in 1..Len(ready_nodes)
           /\ \A i, j \in 1..Len(ready_nodes) :
                 i < j => Rank(IdOrder, ready_nodes[i])
                              < Rank(IdOrder, ready_nodes[j])
           /\ \A i \in 1..(idx - 1) :
                 dispatched[Len(dispatched) - (idx - 1) + i] = ready_nodes[i]

(* C31: while one manager is open, the status of a node changes only
   from pending to in_progress and from in_progress to completed, failed
   or skipped; a terminal status never changes; the statuses ready and
   retrying are never written; and no node is handed to record_node_start
   twice. *)
C31_NodeStatusLifecycle ==
    [][(state # NoState /\ state' # NoState /\ run' = run)
          => /\ \A n \in DOMAIN state.nodes :
                   /\ n \in DOMAIN state'.nodes
                   /\ state'.nodes[n].status \notin {"ready", "retrying"}
                   /\ state'.nodes[n].status # state.nodes[n].status
                         => \/ /\ state.nodes[n].status = PENDING
                               /\ state'.nodes[n].status = IN_PROGRESS
                            \/ /\ state.nodes[n].status = IN_PROGRESS
                               /\ state'.nodes[n].status
                                      \in {COMPLETED, FAILED, SKIPPED}
             /\ \A i, j \in 1..Len(dispatched') :
                   i # j => dispatched'[i] # dispatched'[j]
      ]_vars

C31_Witness ==
    /\ state # NoState
    /\ plan = ChainGraph
    /\ dispatched = <<"a", "b", "c">>
    /\ state.nodes["a"].status = COMPLETED
    /\ state.nodes["b"].status = SKIPPED
    /\ state.nodes["c"].status = FAILED
    /\ cycle_count > 1
    /\ pc = "cycle"

(* C32: when the graph of the planner matches the checkpoint of an earlier
   run in which every node of the graph is terminal, the manager adopts
   those statuses without writing, the traversal (unless an interrupt ends
   the process) ends at its first pass without dispatching a node or changing the checkpoint, the result list
   it leaves for the planner is empty, and a planner invoked on an empty
   result list gets a context without results. *)
C32_TerminalRunIsNotReexecuted ==
    [][/\ (/\ pc = "pm"
           /\ op'.name = "open"
           /\ LET found == _find_resumable_run_dir(
                               files, dirs, _compute_graph_hash(graph'))
              IN  /\ found # 0
                  /\ \A n \in NodeSet(graph') :
                        /\ n \in DOMAIN files[found].nodes
                        /\ _is_terminal_node_status(
                               files[found].nodes[n].status))
          => /\ run' = _find_resumable_run_dir(
                           files, dirs, _compute_graph_hash(graph'))
             /\ pc' = "traverse"
             /\ node_results' = <<>>
             /\ files' = files
             /\ \A n \in NodeSet(graph') :
                   state'.nodes[n].status = files[run'].nodes[n].status
       /\ (/\ pc = "traverse"
           /\ op.name = "open"
           /\ all_nodes_complete(graph, get_status_map(state))
           /\ ~shutting_down
           /\ op'.name # "sigint")
          => /\ pc' = "cycle"
             /\ pl_results' = <<>>
             /\ dispatched' = dispatched
             /\ state' = state
             /\ files' = files
       /\ (pc = "cycle" /\ pc' = "pm" /\ pl_results = <<>>)
          => build_pm_context(pl_results') = <<>>
      ]_vars

C32_Witness ==
    /\ pc = "pm"
    /\ cycle_count = 3
    /\ pl_results = <<>>
    /\ Len(dispatched) = Len(graph.nodes)
    /\ \E n \in NodeSet(graph) : state.nodes[n].status = FAILED
    /\ \E n \in NodeSet(graph) : state.nodes[n].status = SKIPPED

(* C33: a cycle error of validate names a path that starts and ends at
   the same node, whose consecutive nodes are joined by an edge of the
   graph, whose nodes are all nodes of the graph, and that passes through
   no node twice apart from its ends. *)
C33_ReportedCycleIsConcrete ==
    pc = "validated"
        => \A i \in 1..Len(out.errors) :
              out.errors[i].kind = "cycle"
                 => LET p == out.errors[i].path
                    IN  /\ IsCyclePath(plan, p)
                        /\ Range(p) \subseteq NodeSet(plan)
                        /\ \A j, k \in 1..(Len(p) - 1) :
                              j # k => p[j] # p[k]

(* Two self-loops and a node that is only downstream of one of them. *)
C33_Witness ==
    /\ pc = "validated"
    /\ plan.edges = <<Edge("a", "a", ALWAYS), Edge("b", "c", ALWAYS),
                      Edge("b", "b", ALWAYS)>>
    /\ out.errors = <<CycleError(<<"b", "b">>)>>

(* C34: the retry counter is zero after every planned graph that passes
   validation; a planner failure met with the counter at zero is retried
   (the driver goes on to the next cycle with exit code unchanged); the
   counter changes only by a planner failure, which raises it, by an
   accepted graph, which resets it, and by the end of the process. *)
C34_RetryBudgetReplenished ==
    [][/\ (pc = "pm" /\ op'.name = "open") => pm_error_retries' = 0
       /\ (pc = "pm" /\ op'.name \in FailureKinds /\ pm_error_retries = 0)
          => /\ pc' = "cycle"
             /\ pm_error_retries' = 1
             /\ exit_code' = exit_code
       /\ pm_error_retries' > pm_error_retries
          => (pc = "pm" /\ op'.name \in FailureKinds)
       /\ pm_error_retries' < pm_error_retries
          => \/ pc = "pm" /\ op'.name = "open"
             \/ pc' = "exited"
      ]_vars

(* Cycle 1 failed and was retried, cycle 2 planned a valid graph and ran
   it, the failure of cycle 3 has been retried. *)
C34_Witness ==
    /\ pc = "cycle"
    /\ cycle_count = 3
    /\ op.name = "timeout"
    /\ pm_error_retries = 1
    /\ state # NoState
    /\ Len(sprint_history) = Len(plan.nodes)
    /\ dispatched # <<>>


(* C35: when the process ends through the shutdown check while it holds an
   open checkpoint, no node is in_progress in the file of that checkpoint;
   a process that ends with an in_progress node in the file of its
   checkpoint ended by a crash (an escaping exception included) or by the
   second interrupt; and the next open of such a file makes the node
   pending in memory and in the payload written at once. *)
C35_GracefulExitLeavesNoInProgress ==
    [][/\ (op'.name = "shutdown" /\ Open)
             => /\ files' = files
                /\ IsJson(files[run]) => InProgressOnDisk(run) = {}
       /\ (/\ Alive /\ Open /\ pc' \in {"exited", "crashed"}
           /\ IsJson(files'[run])
           /\ \E n \in DOMAIN files'[run].nodes :
                 files'[run].nodes[n].status = IN_PROGRESS)
             => op'.name \in {"crash", "forced_shutdown"}
       /\ (/\ op'.name = "open"
           /\ IsJson(files[run'])
           /\ InProgressOnDisk(run') # {})
             => /\ \A n \in InProgressOnDisk(run') :
                      /\ state'.nodes[n].status = PENDING
                      /\ tmps'[run'].nodes[n].status = PENDING
                /\ pc' = "rename"
                /\ ret' = "traverse"
      ]_vars

(* The second process on the chain's checkpoint has ended through the
   shutdown check with the outcomes of a and b in the file. *)
C35_Witness ==
    /\ pc = "exited"
    /\ op.name = "shutdown"
    /\ restarts = 1
    /\ plan = ChainGraph
    /\ IsJson(files[1])
    /\ files[1].nodes["a"].status = COMPLETED
    /\ _is_terminal_node_status(files[1].nodes["b"].status)
    /\ files[1].nodes["c"].status = PENDING

(* C35 as stated: whenever the process has ended through the shutdown
   check, no checkpoint file holds an in_progress node. *)
C35_AsStated ==
    (pc = "exited" /\ op.name = "shutdown")
        => \A r \in RunDirs :
              IsJson(files[r]) => InProgressOnDisk(r) = {}


(* C36: every planning node at minimal that has a completed discovery node
   among its upstream nodes, direct or not, was given a context at partial
   fidelity when it was executed, in the process that executed the
   discovery node and in a process that resumed the checkpoint. *)
C36_PromotionSurvivesResume ==
    \A i \in 1..Len(out) :
        Promotable(out[i].node) => out[i].context.fidelity = "partial"


(* The positions of the entries of a sprint list that are mappings. *)
DictIndices(sprints) ==
    SelectSeq([i \in 1..Len(sprints) |-> i], LAMBDA i : sprints[i].is_dict)

(* C37: in the graph built from a sprint list, the sprints being the
   entries that are mappings, in the order of the list: a parallel_safe
   sprint has one incoming edge, from the nearest sequential sprint before
   it, if there is one; a sequential sprint that has a sequential sprint
   before it has one edge from each parallel_safe sprint between the
   nearest such sprint S and itself and none from S, or one edge from S
   when none is between; there is no other edge and no edge twice; and
   the id of a sprint is its sanitized name, or, when an earlier sprint
   has that id, the sanitized name with the first of the suffixes -2, -3,
   ... that gives an id no earlier sprint has. *)
C37_LegacyLinearization ==
    op.name = "open" =>
        LET kept == DictIndices(plan)
            n == Len(kept)
            ids == IdGraph(graph).nodes
            par(j) == plan[kept[j]].parallel_safe
            base(j) == _sanitize_graph_node_id(
                           sprint_name(plan[kept[j]], kept[j]))
            prev(j) == Max({0} \cup {i \in 1..(j - 1) : ~par(i)})
            Linked(i, j) ==
                /\ prev(j) > 0
                /\ IF par(j) \/ prev(j) = j - 1 THEN i = prev(j)
                   ELSE i \in (prev(j) + 1)..(j - 1)
            expected == {<<i, j>> \in (1..n) \X (1..n) : Linked(i, j)}
        IN  /\ Len(ids) = n
            /\ {<<graph.edges[k].source, graph.edges[k].target>> :
                    k \in 1..Len(graph.edges)}
                   = {<<ids[p[1]], ids[p[2]]>> : p \in expected}
            /\ Len(graph.edges) = Cardinality(expected)
            /\ \A k \in 1..Len(graph.edges) :
                  graph.edges[k].condition = ALWAYS
            /\ \A j \in 1..n :
                  LET used == {ids[i] : i \in 1..(j - 1)}
                  IN  IF base(j) \notin used THEN ids[j] = base(j)
                      ELSE \E m \in 2..(n + 1) :
                              /\ ids[j] = base(j) \o "-" \o Str(m)
                              /\ ids[j] \notin used
                              /\ \A q \in 2..(m - 1) :
                                    (base(j) \o "-" \o Str(q)) \in used

(* The list x, X (parallel_safe), x-2: three sprints whose sanitized
   names collide, a fan-out of one and its join. *)
C37_Witness ==
    /\ pc = "traverse"
    /\ op.name = "open"
    /\ plan = <<Sprint(<<"x">>, FALSE), Sprint(<<"X">>, TRUE),
                Sprint(<<"x", "-", "2">>, FALSE)>>
    /\ IdGraph(graph).nodes = <<"x", "x-2", "x-2-2">>
    /\ graph.edges = <<Edge("x", "x-2", ALWAYS),
                       Edge("x-2", "x-2-2", ALWAYS)>>

(* C38: the graph built from a sprint list has one node for each entry
   that is a mapping, an entry that is not a mapping having none; the ids
   of the nodes are pairwise distinct; every edge goes from a node to a
   node that is later in the list; the graph is valid, without unknown
   endpoint and without cycle; and the traversal never finds it stuck and
   ends with every node dispatched once. *)
C38_LegacyGraphIsValid ==
    /\ op.name = "open" =>
           LET ids == IdGraph(graph).nodes
               v == validate(IdGraph(graph))
               kept == DictIndices(plan)
           IN  /\ Len(ids) = Len(kept)
               /\ \A i \in 1..Len(ids) :
                     graph.nodes[i].name
                         = join(sprint_name(plan[kept[i]], kept[i]))
               /\ \A i, j \in 1..Len(ids) : i # j => ids[i] # ids[j]
               /\ \A k \in 1..Len(graph.edges) :
                     \E i, j \in 1..Len(ids) :
                         /\ i < j
                         /\ graph.edges[k].source = ids[i]
                         /\ graph.edges[k].target = ids[j]
               /\ v.valid /\ v.missing = {} /\ ~v.cyclic
    /\ pc \notin {"invalid", "stuck"}
    /\ \A i, j \in 1..Len(dispatched) :
          i # j => dispatched[i] # dispatched[j]
    /\ Range(dispatched) \subseteq {graph.nodes[i].id : i \in 1..Len(graph.nodes)}
    /\ pc = "cycle" =>
           Range(dispatched) = {graph.nodes[i].id : i \in 1..Len(graph.nodes)}

(* A leading parallel_safe sprint without name, an entry that is not a
   mapping and a sequential sprint: two nodes without edge, both
   dispatched. *)
C38_Witness ==
    /\ pc = "cycle"
    /\ plan = <<Sprint(<<Blank>>, TRUE), NotADict, Sprint(<<"x">>, FALSE)>>
    /\ IdGraph(graph).nodes = <<"sprint-1", "x">>
    /\ graph.edges = <<>>
    /\ dispatched = <<"sprint-1", "x">>

(* C38 as stated: the graph has one node for each entry of the sprint
   list. *)
C38_AsStated ==
    op.name = "open" => Len(graph.nodes) = Len(plan)


(* The positions of the markers in an agent output. *)
MarkerPositions(output) ==
    {i \in 1..Len(output) : output[i] = SIGNAL_MARKER}

(* The text between the last two markers of an output with two markers or
   more, without the blank lines at its ends. *)
LastPayload(output) ==
    LET last == Max(MarkerPositions(output))
        before == Max(MarkerPositions(output) \ {last})
    IN  strip(SubSeq(output, before + 1, last - 1))

(* What parse_signal answers to an output: no_signal with a tail of
   RAW_LIMIT characters at most when it has fewer than two markers,
   empty_signal when the payload between the last two markers is empty,
   parse_error when the decoding of that payload raises, and the decoded
   payload otherwise. *)
SignalParsedAsDescribed ==
    pc = "parsed" =>
        IF Cardinality(MarkerPositions(plan)) < 2
        THEN /\ out["signal"] = "error"
             /\ out["error_type"] = "no_signal"
             /\ TextLen(out["raw_tail"]) <= RAW_LIMIT
             /\ TextLen(out["raw_tail"]) <= TextLen(Whole(plan))
             /\ LET d == Len(plan) - Len(out["raw_tail"])
                IN  \A i \in 1..Len(out["raw_tail"]) :
                       out["raw_tail"][i].piece = plan[d + i]
        ELSE IF LastPayload(plan) = <<>>
        THEN /\ out["signal"] = "error"
             /\ out["error_type"] = "empty_signal"
        ELSE IF op.arg = "raises"
        THEN /\ out["signal"] = "error"
             /\ out["error_type"] = "parse_error"
        ELSE /\ "error_type" \notin DOMAIN out
             /\ \A key \in DOMAIN out \ {"graph"} :
                   out[key] = _parse_simple_yaml(LastPayload(plan), <<>>)[key]
             /\ DOMAIN _parse_simple_yaml(LastPayload(plan), <<>>)
                       \subseteq DOMAIN out

(* C39: parse_signal answers no_signal, with a raw_tail of at most
   RAW_LIMIT characters, to an output with fewer than two markers;
   otherwise it decodes the text between the last two markers, answers
   empty_signal when that text is empty and parse_error when the decoding
   raises; and the mapping it returns always has the key signal. *)
C39_SignalParsing ==
    /\ SignalParsedAsDescribed
    /\ pc = "parsed" => "signal" \in DOMAIN out


(* The node or its inputs declare an output path. *)
DeclaresOutput(w) ==
    w.output_path # None \/ strip(w.inputs_output_path) # Empty

(* Nothing is where the content handler looks for the output. *)
OutputMissing(w) ==
    IF DeclaresOutput(w)
    THEN w.target = "absent" \/ (w.target = "dir" /\ ~w.dir_files)
    ELSE ~w.work_files

(* C40: the outcome of the content handler is completed only if the agent
   signalled done and an artifact was collected; when the declared output
   path does not exist or is a directory without file, or when no output
   path is declared and tasks/<node-id>/ holds no file, the outcome is
   failed, the payload it is built from has error_type missing_output and
   the artifact list is empty, whatever the agent signalled. *)
C40_ContentOutcome ==
    pc = "returned" =>
        /\ out.outcome.status = COMPLETED
              => /\ out.result = "done"
                 /\ out.outcome.artifacts # <<>>
        /\ OutputMissing(out.world)
              => /\ out.outcome.status = FAILED
                 /\ out.signal_payload.error_type = "missing_output"
                 /\ out.outcome.artifacts = <<>>
                 /\ out.outcome.error_details # None

(* The agent signalled done and the declared output directory holds no
   file. *)
C40_Witness ==
    /\ pc = "returned"
    /\ out.result = "done"
    /\ out.world.output_path = T("o")
    /\ out.world.target = "dir"
    /\ ~out.world.dir_files
    /\ out.world.work_files
    /\ out.outcome.status = FAILED
    /\ out.outcome.artifacts = <<>>

====
